---- MODULE Spec2Model ----
(***************************************************************************)
(* Recurring-transaction materializer of the finance tracker:              *)
(* DatabaseStorage.processRecurringTransactions and                        *)
(* DatabaseStorage.calculateNextRecurrenceDates, with the transactions     *)
(* table they read and write.                                              *)
(*                                                                         *)
(* A Date is an instant, counted in whole hours since 1970-01-01T00:00Z.   *)
(* The calculator reads and builds dates in the server's local time zone   *)
(* (getMonth, getDate, getDay, new Date(y, m, d), setDate); the duplicate  *)
(* check compares UTC calendar days (toISOString, SQL DATE of a timestamp  *)
(* stored in UTC).  tz is the zone's offset from UTC in hours.             *)
(***************************************************************************)
EXTENDS Integers, Sequences, FiniteSets, TLC

VARIABLES
    tz,            \* offset of the server's local time zone from UTC, in hours
    rows,          \* the transactions table: a set of row records
    nextId,        \* ids (and createdAt order) of rows: next value to assign
    proc,          \* per request: the state of a processRecurringTransactions call
    created,       \* history: ids of the rows inserted by the materializer
    lastRun,       \* history: the last invocation answered, until another write
    runs,          \* number of invocations started so far
    response,      \* per request: the last answer of the process-recurrence route
    edits,         \* number of PATCH and DELETE requests served so far
    edited,        \* history: the PATCH requests served, as [id, userId, body]
    formRows,      \* history: ids of the rows created through the two forms
    listing,       \* the last answer of GET /api/transactions, until the next request
    passwordColumn,\* whether the users table has the password column
    users,         \* the users table: a set of row records
    session,       \* the session of the browser: local userId and passport user
    now,           \* the clock, in the unit of the tokens' expires_at
    reply,         \* the last answer of an auth, account or DELETE route
    calcTemplate,  \* calculator harness: the template given to the calculator
    calcTarget,    \* calculator harness: the target date given to the calculator
    calcDates,     \* calculator harness: the list the calculator returned
    calcPc,        \* calculator harness: "input" before the call, "done" after
    form,          \* Transactions page: the values of the open form, or <<>>
    editingTransaction,  \* Transactions page: the row being edited, or <<>>
    amountTyped    \* history: the last text typed in the amount field, or <<>>

vars == <<tz, rows, nextId, proc, created, lastRun, runs,
          response, edits, edited, formRows, listing,
          passwordColumn, users, session, now, reply,
          calcTemplate, calcTarget, calcDates, calcPc,
          form, editingTransaction, amountTyped>>

dbVars == <<rows, nextId, proc, created, lastRun, runs,
            response, edits, edited, formRows, listing>>
calcVars == <<calcTemplate, calcTarget, calcDates, calcPc>>
sessVars == <<passwordColumn, users, session, now>>
authVars == <<passwordColumn, users, session, now, reply>>
formVars == <<form, editingTransaction, amountTyped>>

-----------------------------------------------------------------------------
(* Nullable columns.  A nullable integer is <<>> (null) or <<n>>; a        *)
(* nullable string column uses the value NULL, distinct from "".           *)

NULL == "<null>"
NoDay == <<>>
Day(n) == <<n>>

-----------------------------------------------------------------------------
(* Calendar arithmetic behind the JavaScript Date built-ins.               *)

\* Day number (days since 1970-01-01) of the civil date y-m-d, m in 1..12.
DaysFromCivil(y, m, d) ==
    LET yy  == IF m <= 2 THEN y - 1 ELSE y
        era == yy \div 400
        yoe == yy - era * 400
        mp  == IF m > 2 THEN m - 3 ELSE m + 9
        doy == (153 * mp + 2) \div 5 + d - 1
        doe == yoe * 365 + yoe \div 4 - yoe \div 100 + doy
    IN  era * 146097 + doe - 719468

\* Civil date of a day number; month is 0-based as in JavaScript.
CivilFromDays(z) ==
    LET zz  == z + 719468
        era == zz \div 146097
        doe == zz - era * 146097
        yoe == (doe - doe \div 1460 + doe \div 36524 - doe \div 146096) \div 365
        doy == doe - (365 * yoe + yoe \div 4 - yoe \div 100)
        mp  == (5 * doy + 2) \div 153
        d   == doy - (153 * mp + 2) \div 5 + 1
        m   == IF mp < 10 THEN mp + 3 ELSE mp - 9
    IN  [year |-> yoe + era * 400 + (IF m <= 2 THEN 1 ELSE 0),
         month |-> m - 1, day |-> d]

\* The local calendar day (day number) and hour of day of an instant.
LocalDay(t) == (t + tz) \div 24
LocalHour(t) == (t + tz) % 24

getFullYear(t) == CivilFromDays(LocalDay(t)).year
getMonth(t) == CivilFromDays(LocalDay(t)).month
getDate(t) == CivilFromDays(LocalDay(t)).day
\* 0 = Sunday .. 6 = Saturday; 1970-01-01 was a Thursday.
getDay(t) == (LocalDay(t) + 4) % 7

\* new Date(year, monthIndex, day): local midnight; monthIndex and day may
\* lie outside their ranges and carry over.
newDate(year, monthIndex, day) ==
    LET y == year + (monthIndex \div 12)
        m == monthIndex % 12
    IN  (DaysFromCivil(y, m + 1, 1) + day - 1) * 24 - tz

\* date.setDate(n): day n of the date's local month, same local time of day.
setDate(t, n) ==
    (DaysFromCivil(getFullYear(t), getMonth(t) + 1, 1) + n - 1) * 24
        + LocalHour(t) - tz

\* date.toISOString().split('T')[0], and SQL DATE(column) of a timestamp
\* stored in UTC: the UTC calendar day.
toISODate(t) == t \div 24

\* The % of JavaScript: the result has the sign of the dividend.
\* An Invalid Date (time value NaN), as a number that is no instant of the
\* model; every comparison with NaN is false and every getter gives NaN.
InvalidDate == 0 - 1
isNaN(t) == t = InvalidDate

jsRem(a, b) == IF a >= 0 THEN a % b ELSE 0 - ((0 - a) % b)

-----------------------------------------------------------------------------
(* calculateNextRecurrenceDates                                            *)

\* case "monthly" / "monthly_variable": the occurrence of month
\* startMonth + monthOffset.
monthlyOccurrenceNoClamp(dayOfMonth, startYear, startMonth, monthOffset) ==
    LET date  == newDate(startYear, startMonth + monthOffset, 1)
        year  == getFullYear(date)
        month == getMonth(date)
    IN  newDate(year, month, dayOfMonth)

monthlyOccurrence(dayOfMonth, startYear, startMonth, monthOffset) ==
    LET date      == newDate(startYear, startMonth + monthOffset, 1)
        year      == getFullYear(date)
        month     == getMonth(date)
        lastDay   == getDate(newDate(year, month + 1, 0))
        actualDay == IF dayOfMonth < lastDay THEN dayOfMonth ELSE lastDay
    IN  newDate(year, month, actualDay)

\* The range test of the monthly loop.
inRangeNoLowerBound(occurrenceDate, templateDate, targetDate) ==
    occurrenceDate <= targetDate

inRange(occurrenceDate, templateDate, targetDate) ==
    occurrenceDate >= templateDate /\ occurrenceDate <= targetDate

monthlyDatesExclusive(template, targetDate) ==
    LET templateDate == template.date
        startMonth   == getMonth(templateDate)
        startYear    == getFullYear(templateDate)
        monthsDiff   == (getFullYear(targetDate) - startYear) * 12
                          + (getMonth(targetDate) - startMonth)
        \* recurrenceDay || templateDate.getDate(): null and 0 are falsy
        dayOfMonth   == IF template.recurrenceDay # NoDay
                           /\ template.recurrenceDay[1] # 0
                        THEN template.recurrenceDay[1]
                        ELSE getDate(templateDate)
        all == IF isNaN(templateDate) THEN <<>>
               ELSE [i \in 1..monthsDiff |->
                       monthlyOccurrence(dayOfMonth, startYear, startMonth,
                                         i - 1)]
    IN  SelectSeq(all, LAMBDA d : inRange(d, templateDate, targetDate))

monthlyDatesOfNumber(template, targetDate) ==
    LET templateDate == template.date
        startMonth   == getMonth(templateDate)
        startYear    == getFullYear(templateDate)
        monthsDiff   == (getFullYear(targetDate) - startYear) * 12
                          + (getMonth(targetDate) - startMonth)
        \* recurrenceDay || templateDate.getDate(): null and 0 are falsy
        dayOfMonth   == IF template.recurrenceDay # NoDay
                           /\ template.recurrenceDay[1] # 0
                        THEN template.recurrenceDay[1]
                        ELSE getDate(templateDate)
        all == [i \in 1..(monthsDiff + 1) |->
                   monthlyOccurrence(dayOfMonth, startYear, startMonth, i - 1)]
    IN  SelectSeq(all, LAMBDA d : inRange(d, templateDate, targetDate))

monthlyDates(template, targetDate) ==
    LET templateDate == template.date
        startMonth   == getMonth(templateDate)
        startYear    == getFullYear(templateDate)
        monthsDiff   == (getFullYear(targetDate) - startYear) * 12
                          + (getMonth(targetDate) - startMonth)
        \* recurrenceDay || templateDate.getDate(): null and 0 are falsy
        dayOfMonth   == IF template.recurrenceDay # NoDay
                           /\ template.recurrenceDay[1] # 0
                        THEN template.recurrenceDay[1]
                        ELSE getDate(templateDate)
        \* monthOffset <= monthsDiff is false when monthsDiff is NaN
        all == IF isNaN(templateDate) THEN <<>>
               ELSE [i \in 1..(monthsDiff + 1) |->
                       monthlyOccurrence(dayOfMonth, startYear, startMonth,
                                         i - 1)]
    IN  SelectSeq(all, LAMBDA d : inRange(d, templateDate, targetDate))

\* case "weekly": the first candidate, then the while loop.
weeklyFirst(template) ==
    LET templateDate == template.date
        \* recurrenceDay !== null ? recurrenceDay : templateDate.getDay()
        dayOfWeek    == IF template.recurrenceDay # NoDay
                        THEN template.recurrenceDay[1]
                        ELSE getDay(templateDate)
    IN  IF isNaN(templateDate) THEN InvalidDate
        ELSE setDate(templateDate,
                     getDate(templateDate)
                         + jsRem(dayOfWeek - getDay(templateDate) + 7, 7))

RECURSIVE weeklyLoop(_, _, _, _)
weeklyLoop(currentDate, templateDate, targetDate, dates) ==
    IF ~isNaN(currentDate) /\ currentDate <= targetDate
    THEN weeklyLoop(setDate(currentDate, getDate(currentDate) + 7),
                    templateDate, targetDate,
                    IF currentDate >= templateDate
                    THEN Append(dates, currentDate) ELSE dates)
    ELSE dates

weeklyDates(template, targetDate) ==
    weeklyLoop(weeklyFirst(template), template.date, targetDate, <<>>)

\* case "biweekly": the first candidate, then the while loop.
biweeklyFirst(template) ==
    LET templateDate == template.date
        biweeklyDay  == IF template.recurrenceDay # NoDay
                        THEN template.recurrenceDay[1]
                        ELSE getDay(templateDate)
    IN  IF isNaN(templateDate) THEN InvalidDate
        ELSE setDate(templateDate,
                     getDate(templateDate)
                         + jsRem(biweeklyDay - getDay(templateDate) + 7, 7))

RECURSIVE biweeklyLoop(_, _, _, _)
biweeklyLoop(biweeklyDate, templateDate, targetDate, dates) ==
    IF ~isNaN(biweeklyDate) /\ biweeklyDate <= targetDate
    THEN biweeklyLoop(setDate(biweeklyDate, getDate(biweeklyDate) + 14),
                      templateDate, targetDate,
                      IF biweeklyDate >= templateDate
                      THEN Append(dates, biweeklyDate) ELSE dates)
    ELSE dates

biweeklyDatesWeekStep(template, targetDate) ==
    weeklyLoop(biweeklyFirst(template), template.date, targetDate, <<>>)

biweeklyDates(template, targetDate) ==
    biweeklyLoop(biweeklyFirst(template), template.date, targetDate, <<>>)

calculateNextRecurrenceDatesDefaultMonthly(template, targetDate) ==
    CASE template.recurrenceType \in {"monthly", "monthly_variable"} ->
             monthlyDates(template, targetDate)
      [] template.recurrenceType = "weekly" ->
             weeklyDates(template, targetDate)
      [] template.recurrenceType = "biweekly" ->
             biweeklyDates(template, targetDate)
      [] OTHER -> monthlyDates(template, targetDate)

calculateNextRecurrenceDates(template, targetDate) ==
    CASE template.recurrenceType \in {"monthly", "monthly_variable"} ->
             monthlyDates(template, targetDate)
      [] template.recurrenceType = "weekly" ->
             weeklyDates(template, targetDate)
      [] template.recurrenceType = "biweekly" ->
             biweeklyDates(template, targetDate)
      [] OTHER -> <<>>

-----------------------------------------------------------------------------
(* The transactions table and DatabaseStorage.                             *)

\* Offsets of the server's time zone from UTC, in hours.
TimeZones == {0 - 3, 0, 2}

MaxCreates == 2
MaxRuns == 2

Users == {"u1", "u2"}
Procs == {1, 2}

\* Texts that the code takes apart are sequences of characters.
DigitChars == <<"0", "1", "2", "3", "4", "5", "6", "7", "8", "9">>

isDigit(c) == \E i \in 1..Len(DigitChars) : DigitChars[i] = c

digitValue(c) == (CHOOSE i \in 1..Len(DigitChars) : DigitChars[i] = c) - 1

NaN == InvalidDate

RECURSIVE leadingDigits(_)
leadingDigits(s) ==
    IF s = <<>> \/ ~isDigit(Head(s)) THEN <<>>
    ELSE <<Head(s)>> \o leadingDigits(Tail(s))

RECURSIVE digitsValue(_)
digitsValue(ds) ==
    IF ds = <<>> THEN 0
    ELSE digitsValue(SubSeq(ds, 1, Len(ds) - 1)) * 10 + digitValue(ds[Len(ds)])

\* parseInt(s, 10) of a text without sign or blanks: the number its leading
\* digits write, NaN when it has none.
parseInt(s) ==
    IF leadingDigits(s) = <<>> THEN NaN ELSE digitsValue(leadingDigits(s))

\* toString() of a natural number.
RECURSIVE toString(_)
toString(n) ==
    IF n < 10 THEN <<DigitChars[n + 1]>>
    ELSE toString(n \div 10) \o <<DigitChars[(n % 10) + 1]>>

\* replace(/\B(?=(\d{3})+(?!\d))/g, '.') on a text of digits: a point
\* before every digit that is followed by a multiple of three digits less
\* one, the first digit excepted.
RECURSIVE thousands(_, _)
thousands(ds, i) ==
    IF i > Len(ds) THEN <<>>
    ELSE (IF i > 1 /\ (Len(ds) - i + 1) % 3 = 0 THEN <<".">> ELSE <<>>)
             \o <<ds[i]>> \o thousands(ds, i + 1)

formatCurrencyInput(value) ==
    LET digits == SelectSeq(value, isDigit)
        numberValue == parseInt(digits)
        formatted == thousands(toString(numberValue), 1)
    IN  IF digits = <<>> THEN <<>> ELSE formatted \o <<".", "0", "0">>

notPoint(c) == c # "."

parseCurrencyInput(value) ==
    LET cleaned == SelectSeq(value, notPoint)
        withoutCents == IF Len(cleaned) <= 2 THEN <<"0">>
                        ELSE SubSeq(cleaned, 1, Len(cleaned) - 2)
        number == parseInt(withoutCents)
    IN  IF isNaN(number) THEN 0 ELSE number

\* The digits of a decimal text before and after its point.
integerPart(text) == leadingDigits(text)

fractionPart(text) ==
    LET rest == SubSeq(text, Len(leadingDigits(text)) + 1, Len(text))
    IN  IF rest # <<>> /\ Head(rest) = "." THEN leadingDigits(Tail(rest))
        ELSE <<>>

\* The text a decimal(12, 2) column gives back for a text written to it
\* that has two decimals at most.
numeric(text) ==
    toString(digitsValue(integerPart(text))) \o <<".">>
        \o SubSeq(fractionPart(text) \o <<"0", "0">>, 1, 2)

\* Math.round(Number(amount) * 100) of a text read from the column.
amountInCents(amount) ==
    digitsValue(integerPart(amount)) * 100
        + digitsValue(SubSeq(fractionPart(amount) \o <<"0", "0">>, 1, 2))

RECURSIVE stripZeros(_)
stripZeros(s) ==
    IF s # <<>> /\ s[Len(s)] = "0" THEN stripZeros(SubSeq(s, 1, Len(s) - 1))
    ELSE s

\* parseFloat(text) as the request carries it: the number written without
\* the zeros that end its decimals.
parseFloat(text) ==
    IF integerPart(text) = <<>> /\ fractionPart(text) = <<>>
    THEN <<"N", "a", "N">>
    ELSE toString(digitsValue(integerPart(text)))
             \o (IF stripZeros(fractionPart(text)) = <<>> THEN <<>>
                 ELSE <<".">> \o stripZeros(fractionPart(text)))

\* The text "100.00".
Amount100 == <<"1", "0", "0", ".", "0", "0">>

\* JavaScript truthiness of a nullable string: null and "" are falsy.
truthy(s) == s # NULL /\ s # ""

Max(S) == CHOOSE x \in S : \A y \in S : y <= x

\* The rows of a set as a sequence, newest (largest id) first.
RECURSIVE newestFirst(_)
newestFirst(S) ==
    IF S = {} THEN <<>>
    ELSE LET r == CHOOSE x \in S : x.id = Max({y.id : y \in S})
         IN  <<r>> \o newestFirst(S \ {r})

\* getRecurringTransactions: the user's rows with isRecurring = true,
\* ordered by createdAt descending.
getRecurringTransactions(userId) ==
    newestFirst({r \in rows : r.userId = userId /\ r.isRecurring})

\* createTransaction: the row inserted for validated data; the id and
\* createdAt are assigned by the database.
createTransaction(transaction) ==
    [id |-> nextId,
     userId |-> transaction.userId,
     categoryId |-> transaction.categoryId,
     title |-> transaction.title,
     amount |-> numeric(transaction.amount),
     date |-> transaction.date,
     status |-> transaction.status,
     notes |-> transaction.notes,
     recurrenceType |-> transaction.recurrenceType,
     recurrenceDay |-> transaction.recurrenceDay,
     isRecurring |-> transaction.isRecurring]

\* The where clause of the existence check, for one row.
matchesAnyUser(r, userId, template, nextDate) ==
    /\ r.title = template.title
    /\ toISODate(r.date) = toISODate(nextDate)
    /\ truthy(template.categoryId) => r.categoryId = template.categoryId

matchesIgnoreCategory(r, userId, template, nextDate) ==
    /\ r.userId = userId
    /\ r.title = template.title
    /\ toISODate(r.date) = toISODate(nextDate)

matchesAlwaysCategory(r, userId, template, nextDate) ==
    /\ r.userId = userId
    /\ r.title = template.title
    /\ toISODate(r.date) = toISODate(nextDate)
    /\ template.categoryId # NULL /\ r.categoryId = template.categoryId

matchesLocalDate(r, userId, template, nextDate) ==
    /\ r.userId = userId
    /\ r.title = template.title
    /\ toISODate(r.date) = LocalDay(nextDate)
    /\ truthy(template.categoryId) => r.categoryId = template.categoryId

matchesMaterializedOnly(r, userId, template, nextDate) ==
    /\ ~r.isRecurring
    /\ r.userId = userId
    /\ r.title = template.title
    /\ toISODate(r.date) = toISODate(nextDate)
    /\ truthy(template.categoryId) => r.categoryId = template.categoryId

matches(r, userId, template, nextDate) ==
    /\ r.userId = userId
    /\ r.title = template.title
    /\ toISODate(r.date) = toISODate(nextDate)
    /\ truthy(template.categoryId) => r.categoryId = template.categoryId

\* db.query.transactions.findFirst(...) found a row.
existingTransaction(userId, template, nextDate) ==
    \E r \in rows : matches(r, userId, template, nextDate)

\* The row inserted for an occurrence of a template.
newTransactionCopyAll(template, nextDate) ==
    [id |-> nextId,
     userId |-> template.userId,
     categoryId |-> IF truthy(template.categoryId)
                    THEN template.categoryId ELSE NULL,
     title |-> template.title,
     amount |-> template.amount,
     date |-> nextDate,
     status |-> template.status,
     notes |-> IF truthy(template.notes) THEN template.notes ELSE NULL,
     recurrenceType |-> "none",
     recurrenceDay |-> NoDay,
     isRecurring |-> FALSE]

newTransactionAsTemplate(template, nextDate) ==
    [id |-> nextId,
     userId |-> template.userId,
     categoryId |-> IF truthy(template.categoryId)
                    THEN template.categoryId ELSE NULL,
     title |-> template.title,
     amount |-> template.amount,
     date |-> nextDate,
     status |-> "unpaid",
     notes |-> IF truthy(template.notes) THEN template.notes ELSE NULL,
     recurrenceType |-> template.recurrenceType,
     recurrenceDay |-> template.recurrenceDay,
     isRecurring |-> template.isRecurring]

newTransaction(template, nextDate) ==
    [id |-> nextId,
     userId |-> template.userId,
     categoryId |-> IF truthy(template.categoryId)
                    THEN template.categoryId ELSE NULL,
     title |-> template.title,
     amount |-> template.amount,
     date |-> nextDate,
     status |-> "unpaid",
     notes |-> IF truthy(template.notes) THEN template.notes ELSE NULL,
     recurrenceType |-> "none",
     recurrenceDay |-> NoDay,
     isRecurring |-> FALSE]

\* The two for loops: the remaining templates (the current one first) and
\* the remaining dates of the current template, moved on to the next
\* template that has a date left.
nextIterationFirstOnly(templates, dates, targetDate) ==
    IF dates # <<>> THEN [templates |-> templates, dates |-> dates]
    ELSE [templates |-> <<>>, dates |-> <<>>]

RECURSIVE nextIteration(_, _, _)
nextIteration(templates, dates, targetDate) ==
    IF dates # <<>> THEN [templates |-> templates, dates |-> dates]
    ELSE IF Len(templates) <= 1 THEN [templates |-> <<>>, dates |-> <<>>]
    ELSE nextIteration(Tail(templates),
                       calculateNextRecurrenceDates(templates[2], targetDate),
                       targetDate)

\* before is history: the rows of the table when the call started.
Idle ==
    [pc |-> "idle", userId |-> NULL, targetDate |-> 0,
     recurringTransactions |-> <<>>, nextDates |-> <<>>, createdCount |-> 0,
     before |-> {}]

NoResponse == [status |-> 0, body |-> [none |-> TRUE]]

\* No answer yet, and a session without a local user or a passport user.
NoReply == [route |-> "", status |-> 0, body |-> [none |-> TRUE]]
NoSession == [userId |-> NULL, passport |-> <<>>]

\* Nobody has registered or logged in.
NoAuth ==
    /\ passwordColumn = FALSE
    /\ users = {}
    /\ session = NoSession
    /\ now = 0
    /\ reply = NoReply

\* The dialog of the Transactions page is closed.
NoForm ==
    /\ form = <<>>
    /\ editingTransaction = <<>>
    /\ amountTyped = <<>>

AllIdle == \A p \in Procs : proc[p].pc = "idle"

\* createdCount++
notCounted(call) == call

counted(call) == [call EXCEPT !.createdCount = @ + 1]

\* The position of a call after its loops moved on.
continueAt(call, it) ==
    [call EXCEPT !.pc = IF it.templates = <<>> THEN "done" ELSE "check",
                 !.recurringTransactions = it.templates,
                 !.nextDates = it.dates]

\* Columns of a new row that the request may leave out, with the defaults
\* of the table.
columnDefaults ==
    [categoryId |-> NULL, status |-> "unpaid", notes |-> NULL,
     recurrenceType |-> "none", recurrenceDay |-> NoDay, isRecurring |-> FALSE]

\* insertTransactionSchema.parse({...req.body, userId: req.userId}), with
\* the defaults the insert applies to the columns left out.
insertTransactionSchema(body, userId) ==
    [k \in (DOMAIN body) \cup (DOMAIN columnDefaults) \cup {"userId"} |->
        IF k = "userId" THEN userId
        ELSE IF k \in DOMAIN body THEN body[k]
        ELSE columnDefaults[k]]

\* POST /api/transactions by an authenticated user: createTransaction.
\* writer is history: the form the request came from, or "api".
createRequest(userId, body, writer) ==
    /\ Cardinality(rows) - Cardinality(created) < MaxCreates
    /\ rows' = rows \cup
                  {createTransaction(insertTransactionSchema(body, userId))}
    /\ nextId' = nextId + 1
    /\ formRows' = IF writer = "api" THEN formRows ELSE formRows \cup {nextId}
    /\ lastRun' = <<>>
    /\ listing' = <<>>
    /\ UNCHANGED <<tz, proc, created, runs, response, edits, edited>>
    /\ UNCHANGED calcVars
    /\ UNCHANGED authVars

Create(userId, body, writer) ==
    /\ createRequest(userId, body, writer)
    /\ UNCHANGED formVars

\* processRecurringTransactions up to its first existence check: reads the
\* templates and computes the dates of the first template that has any.
Begin(p, userId, targetDate) ==
    /\ proc[p].pc = "idle"
    /\ runs < MaxRuns
    /\ runs' = runs + 1
    /\ LET recurringTransactions == getRecurringTransactions(userId)
           first == IF recurringTransactions = <<>> THEN <<>>
                    ELSE calculateNextRecurrenceDates(recurringTransactions[1],
                                                      targetDate)
           it == nextIteration(recurringTransactions, first, targetDate)
       IN  proc' = [proc EXCEPT ![p] =
                       continueAt([Idle EXCEPT !.userId = userId,
                                               !.targetDate = targetDate,
                                               !.before = rows], it)]
    /\ response' = [response EXCEPT ![p] = NoResponse]
    /\ listing' = <<>>
    /\ UNCHANGED <<tz, rows, nextId, created, lastRun, edits, edited, formRows>>
    /\ UNCHANGED calcVars
    /\ UNCHANGED formVars
    /\ UNCHANGED authVars

\* The existence check of the current occurrence; when a row is found the
\* loops move on to the next occurrence.
Check(p) ==
    /\ proc[p].pc = "check"
    /\ LET call == proc[p]
           template == Head(call.recurringTransactions)
           nextDate == Head(call.nextDates)
           it == nextIteration(call.recurringTransactions,
                               Tail(call.nextDates), call.targetDate)
       IN  proc' = [proc EXCEPT ![p] =
                       IF existingTransaction(call.userId, template, nextDate)
                       THEN continueAt(call, it)
                       ELSE [call EXCEPT !.pc = "insert"]]
    /\ listing' = <<>>
    /\ UNCHANGED <<tz, rows, nextId, created, lastRun, runs,
                   response, edits, edited, formRows>>
    /\ UNCHANGED calcVars
    /\ UNCHANGED formVars
    /\ UNCHANGED authVars

\* The insert of the current occurrence, createdCount++, and the loops
\* moving on.
Insert(p) ==
    /\ proc[p].pc = "insert"
    /\ LET call == proc[p]
           template == Head(call.recurringTransactions)
           nextDate == Head(call.nextDates)
           it == nextIteration(call.recurringTransactions,
                               Tail(call.nextDates), call.targetDate)
       IN  /\ rows' = rows \cup {newTransaction(template, nextDate)}
           /\ nextId' = nextId + 1
           /\ created' = created \cup
                  {[id |-> nextId, template |-> template.id, date |-> nextDate]}
           /\ proc' = [proc EXCEPT ![p] = continueAt(counted(call), it)]
    /\ listing' = <<>>
    /\ UNCHANGED <<tz, lastRun, runs, response, edits, edited, formRows>>
    /\ UNCHANGED calcVars
    /\ UNCHANGED formVars
    /\ UNCHANGED authVars

\* The answer of POST /api/transactions/process-recurrence: the count when
\* the call returned, a generic error when it threw.
processRecurrenceResponseWithCount(call) ==
    IF call.pc = "done"
    THEN [status |-> 200,
          body |-> [success |-> TRUE, createdCount |-> call.createdCount,
                    message |-> call.createdCount]]
    ELSE [status |-> 500,
          body |-> [error |-> "Erro ao processar transacoes recorrentes",
                    createdCount |-> call.createdCount]]

processRecurrenceResponse(call) ==
    IF call.pc = "done"
    THEN [status |-> 200,
          body |-> [success |-> TRUE, createdCount |-> call.createdCount,
                    message |-> call.createdCount]]
    ELSE [status |-> 500,
          body |-> [error |-> "Erro ao processar transacoes recorrentes"]]

\* return createdCount; the endpoint answers with it.
Return(p) ==
    /\ proc[p].pc = "done"
    /\ response' = [response EXCEPT ![p] = processRecurrenceResponse(proc[p])]
    /\ listing' = <<>>
    /\ lastRun' = <<[userId |-> proc[p].userId,
                     targetDate |-> proc[p].targetDate,
                     createdCount |-> proc[p].createdCount,
                     before |-> proc[p].before,
                     rows |-> rows,
                     failed |-> FALSE]>>
    /\ proc' = [proc EXCEPT ![p] = Idle]
    /\ UNCHANGED <<tz, rows, nextId, created, runs, edits, edited, formRows>>
    /\ UNCHANGED calcVars
    /\ UNCHANGED formVars
    /\ UNCHANGED authVars

\* A persistence failure of the existence check or of the insert: the call
\* throws at that await.
Fail(p) ==
    /\ proc[p].pc \in {"check", "insert"}
    /\ proc' = [proc EXCEPT ![p].pc = "failed"]
    /\ listing' = <<>>
    /\ UNCHANGED <<tz, rows, nextId, created, lastRun, runs,
                   response, edits, edited, formRows>>
    /\ UNCHANGED calcVars
    /\ UNCHANGED formVars
    /\ UNCHANGED authVars

\* The catch of the route: a generic error.
ReturnError(p) ==
    /\ proc[p].pc = "failed"
    /\ response' = [response EXCEPT ![p] = processRecurrenceResponse(proc[p])]
    /\ proc' = [proc EXCEPT ![p] = Idle]
    /\ lastRun' = <<[userId |-> proc[p].userId,
                     targetDate |-> proc[p].targetDate,
                     createdCount |-> proc[p].createdCount,
                     before |-> proc[p].before,
                     rows |-> rows,
                     failed |-> TRUE]>>
    /\ listing' = <<>>
    /\ UNCHANGED <<tz, rows, nextId, created, runs, edits, edited, formRows>>
    /\ UNCHANGED calcVars
    /\ UNCHANGED formVars
    /\ UNCHANGED authVars

MaxEdits == 1

\* insertTransactionSchema.partial().omit({userId, isRecurring,
\* recurrenceType, recurrenceDay}).parse(req.body): the omitted keys of the
\* body are dropped.
patchSchemaKeepAll(body) == body

patchSchema(body) ==
    [k \in (DOMAIN body)
            \ {"userId", "isRecurring", "recurrenceType", "recurrenceDay"} |->
        body[k]]

\* updateTransaction: the table after the update of the row with that id
\* and owner.
updateTransactionAllOfOwner(id, userId, transaction) ==
    { IF r.userId = userId
      THEN [k \in DOMAIN r |->
               IF k \notin DOMAIN transaction THEN r[k]
               ELSE IF k = "amount" THEN numeric(transaction[k])
               ELSE transaction[k]]
      ELSE r : r \in rows }

updateTransaction(id, userId, transaction) ==
    { IF r.id = id /\ r.userId = userId
      THEN [k \in DOMAIN r |->
               IF k \notin DOMAIN transaction THEN r[k]
               ELSE IF k = "amount" THEN numeric(transaction[k])
               ELSE transaction[k]]
      ELSE r : r \in rows }

\* deleteTransaction: the table after the delete.
deleteTransaction(id, userId) ==
    {r \in rows : ~(r.id = id /\ r.userId = userId)}

\* PATCH /api/transactions/:id
updateRequest(userId, id, body) ==
    /\ edits < MaxEdits
    /\ edits' = edits + 1
    /\ rows' = updateTransaction(id, userId, patchSchema(body))
    /\ edited' = edited \cup {[n |-> edits + 1, id |-> id, userId |-> userId,
                                body |-> body]}
    /\ lastRun' = <<>>
    /\ listing' = <<>>
    /\ UNCHANGED <<tz, nextId, proc, created, runs, response, formRows>>
    /\ UNCHANGED calcVars
    /\ UNCHANGED authVars

Update(userId, id, body) ==
    /\ updateRequest(userId, id, body)
    /\ UNCHANGED formVars

\* DELETE /api/transactions/:id
\* The value deleteTransaction returns: true, whether or not a row matched.
deleteTransactionSuccess(id, userId) == TRUE

\* The answer of the DELETE route for that value.
deleteTransactionResponse(success) ==
    IF ~success
    THEN [route |-> "DELETE /api/transactions/:id", status |-> 404,
          body |-> [error |-> "Transacao nao encontrada"]]
    ELSE [route |-> "DELETE /api/transactions/:id", status |-> 204,
          body |-> [none |-> TRUE]]

\* DELETE /api/transactions/:id
Delete(userId, id) ==
    /\ edits < MaxEdits
    /\ edits' = edits + 1
    /\ rows' = deleteTransaction(id, userId)
    /\ reply' = deleteTransactionResponse(deleteTransactionSuccess(id, userId))
    /\ lastRun' = <<>>
    /\ listing' = <<>>
    /\ UNCHANGED <<tz, nextId, proc, created, runs, response, edited, formRows>>
    /\ UNCHANGED calcVars
    /\ UNCHANGED formVars
    /\ UNCHANGED sessVars

\* getTransactions: the user's rows that pass the filters given.
getTransactions(userId, filters) ==
    {r \in rows :
        /\ r.userId = userId
        /\ "categoryId" \in DOMAIN filters => r.categoryId = filters.categoryId
        /\ "status" \in DOMAIN filters => r.status = filters.status
        /\ "startDate" \in DOMAIN filters => r.date >= filters.startDate
        /\ "endDate" \in DOMAIN filters => r.date <= filters.endDate}

\* GET /api/transactions; at is history: the time of the request.
List(userId, filters, at) ==
    /\ listing' = <<[userId |-> userId, filters |-> filters, at |-> at,
                     transactions |-> getTransactions(userId, filters)]>>
    /\ UNCHANGED <<tz, rows, nextId, proc, created, lastRun, runs,
                   response, edits, edited, formRows>>
    /\ UNCHANGED calcVars
    /\ UNCHANGED formVars
    /\ UNCHANGED authVars

\* Request bodies of POST /api/transactions (userId is set by the route).
At(y, m, d, h) == DaysFromCivil(y, m, d) * 24 + h

Body(title, categoryId, date, status, notes, type, day, isRecurring) ==
    [userId |-> NULL, categoryId |-> categoryId, title |-> title,
     amount |-> Amount100, date |-> date, status |-> status, notes |-> notes,
     recurrenceType |-> type, recurrenceDay |-> day,
     isRecurring |-> isRecurring]

CreateRequests ==
    { <<"u1", Body("rent", "c1", At(2024, 1, 31, 0), "paid", "",
                   "monthly", Day(31), TRUE)>>,
      <<"u1", Body("rent", NULL, At(2024, 1, 31, 15), "unpaid", "memo",
                   "biweekly", NoDay, TRUE)>>,
      <<"u1", Body("rent", "c1", At(2024, 2, 29, 12), "paid", NULL,
                   "none", NoDay, FALSE)>>,
      <<"u2", Body("rent", "c1", At(2024, 1, 31, 0), "unpaid", NULL,
                   "monthly_variable", NoDay, TRUE)>> }

TargetDates == {At(2024, 2, 14, 15), At(2024, 3, 1, 3)}

Init ==
    /\ NoForm
    /\ tz \in TimeZones
    /\ rows = {}
    /\ nextId = 1
    /\ proc = [p \in Procs |-> Idle]
    /\ created = {}
    /\ lastRun = <<>>
    /\ runs = 0
    /\ response = [p \in Procs |-> NoResponse]
    /\ edits = 0
    /\ edited = {}
    /\ formRows = {}
    /\ listing = <<>>
    /\ NoAuth
    /\ calcTemplate = [date |-> 0, recurrenceType |-> "none",
                       recurrenceDay |-> NoDay]
    /\ calcTarget = 0
    /\ calcDates = <<>>
    /\ calcPc = "off"

\* The values of the transaction forms: the date is a calendar day.
FormValues(title, categoryId, day, status, notes, type, recurrenceDay) ==
    [title |-> title, amount |-> Amount100, date |-> day,
     categoryId |-> categoryId, status |-> status, notes |-> notes,
     recurrenceType |-> type, recurrenceDay |-> recurrenceDay]

\* Transactions.handleSubmit: the body posted by the Transactions page; the
\* server reads the YYYY-MM-DD date as midnight UTC.
handleSubmit(values) ==
    [title |-> values.title,
     amount |-> toString(parseCurrencyInput(values.amount)),
     date |-> values.date * 24,
     categoryId |-> values.categoryId, status |-> values.status,
     notes |-> values.notes, recurrenceType |-> values.recurrenceType,
     recurrenceDay |-> values.recurrenceDay,
     isRecurring |-> values.recurrenceType # "none"]

\* WeeklyView.onSubmit: the body posted by the Weekly View form, for a
\* browser whose zone is browserTz hours from UTC; it has no isRecurring.
onSubmit(data, browserTz) ==
    [title |-> data.title, amount |-> parseFloat(data.amount),
     date |-> data.date * 24 + 12 - browserTz,
     categoryId |-> data.categoryId, status |-> data.status,
     notes |-> data.notes, recurrenceType |-> data.recurrenceType,
     recurrenceDay |-> IF data.recurrenceType \in {"monthly", "quarterly"}
                       THEN Day(CivilFromDays(data.date).day) ELSE NoDay]

\* Requests of the sequential specification: <<user, body, writer>>.
SeqRequests ==
    { <<"u1", handleSubmit(FormValues("rent", "c1", DaysFromCivil(2024, 1, 31),
                                      "paid", "", "monthly", Day(31))),
        "transactions">>,
      <<"u1", Body("rent", NULL, At(2024, 1, 31, 15), "unpaid", "memo",
                   "biweekly", NoDay, TRUE), "api">>,
      <<"u1", handleSubmit(FormValues("rent", "c1", DaysFromCivil(2024, 2, 29),
                                      "paid", "", "none", NoDay)),
        "transactions">>,
      <<"u1", onSubmit(FormValues("rent", "c2", DaysFromCivil(2024, 2, 28),
                                  "unpaid", "", "monthly", NoDay), 0 - 3),
        "weekly-view">>,
      <<"u1", Body("gym", NULL, At(2024, 1, 31, 0), "unpaid", NULL,
                   "none", NoDay, TRUE), "api">>,
      <<"u2", Body("rent", "c1", At(2024, 1, 31, 0), "unpaid", NULL,
                   "monthly_variable", NoDay, TRUE), "api">> }

SeqTargetDates == TargetDates \cup {At(2024, 1, 31, 3)}

\* Bodies of PATCH /api/transactions/:id.
PatchBodies ==
    { [status |-> "paid"],
      [date |-> At(2024, 2, 14, 12)],
      [title |-> "gym", userId |-> "u2", isRecurring |-> TRUE,
       recurrenceType |-> "weekly", recurrenceDay |-> Day(3)] }

ListFilters == { <<>> }

\* Requests served one at a time: transactions created and materialized,
\* with persistence failures.
NextSeq ==
    \/ \E req \in SeqRequests : AllIdle /\ Create(req[1], req[2], req[3])
    \/ \E u \in Users, t \in SeqTargetDates : AllIdle /\ Begin(1, u, t)
    \/ Check(1)
    \/ Insert(1)
    \/ Fail(1)
    \/ Return(1)
    \/ ReturnError(1)

SpecSeq == Init /\ [][NextSeq]_vars

ApiRequests ==
    {req \in SeqRequests : req[2].title = "rent" /\ req[2].recurrenceType # "none"}

ApiTargetDates == {At(2024, 2, 14, 15)}

\* Requests served one at a time: transactions created, materialized,
\* edited, deleted and listed.
NextApi ==
    \/ \E req \in ApiRequests : AllIdle /\ Create(req[1], req[2], req[3])
    \/ \E u \in Users, t \in ApiTargetDates : AllIdle /\ Begin(1, u, t)
    \/ Check(1)
    \/ Insert(1)
    \/ Return(1)
    \/ \E u \in Users, id \in 1..(nextId - 1), body \in PatchBodies :
          AllIdle /\ Update(u, id, body)
    \/ \E u \in Users, id \in 1..(nextId - 1) : AllIdle /\ Delete(u, id)
    \/ \E u \in Users, f \in ListFilters, t \in ApiTargetDates :
          AllIdle /\ List(u, f, t)

SpecApi == Init /\ [][NextApi]_vars

\* A template whose stored date reads back as an Invalid Date (a timestamp
\* such as infinity, written to the table otherwise than by these routes).
InvalidTemplates ==
    [id : {0}, userId : {"u1"}, categoryId : {"c1"}, title : {"old"},
     amount : {Amount100}, date : {InvalidDate}, status : {"unpaid"},
     notes : {NULL},
     recurrenceType : {"monthly", "monthly_variable", "weekly", "biweekly"},
     recurrenceDay : {NoDay, Day(3)}, isRecurring : {TRUE}]

\* The table holds a template of u1 created by a request and a template
\* with an invalid date, in either order of creation.
InitInvalid ==
    /\ NoForm
    /\ tz \in TimeZones
    /\ nextId = 3
    /\ \E k \in {1, 2}, bad \in InvalidTemplates,
          req \in {r \in SeqRequests :
                      /\ r[1] = "u1"
                      /\ insertTransactionSchema(r[2], r[1]).isRecurring
                      /\ r[2].recurrenceType # "none"} :
          rows = {[bad EXCEPT !.id = k],
                  [createTransaction(insertTransactionSchema(req[2], req[1]))
                      EXCEPT !.id = 3 - k]}
    /\ proc = [p \in Procs |-> Idle]
    /\ created = {}
    /\ lastRun = <<>>
    /\ runs = 0
    /\ response = [p \in Procs |-> NoResponse]
    /\ edits = 0
    /\ edited = {}
    /\ formRows = {}
    /\ listing = <<>>
    /\ NoAuth
    /\ calcTemplate = [date |-> 0, recurrenceType |-> "none",
                       recurrenceDay |-> NoDay]
    /\ calcTarget = 0
    /\ calcDates = <<>>
    /\ calcPc = "off"

\* Materializer calls, one at a time, over that table.
NextInvalid ==
    \/ \E u \in Users, t \in SeqTargetDates : AllIdle /\ Begin(1, u, t)
    \/ Check(1)
    \/ Insert(1)
    \/ Fail(1)
    \/ Return(1)
    \/ ReturnError(1)

SpecInvalid == InitInvalid /\ [][NextInvalid]_vars

\* Requests served concurrently: the awaits of two calls interleave.
Next ==
    \/ \E req \in CreateRequests : Create(req[1], req[2], "api")
    \/ \E p \in Procs, u \in Users, t \in TargetDates : Begin(p, u, t)
    \/ \E p \in Procs : Check(p)
    \/ \E p \in Procs : Insert(p)
    \/ \E p \in Procs : Return(p)

Spec == Init /\ [][Next]_vars

-----------------------------------------------------------------------------
(* Calculator harness: the calculator applied to one template and one      *)
(* target date drawn from bounded sets.                                    *)

MaxTargetDays == 16
MaxTargetMonths == 4

\* Anchor days: month ends before a leap and a non-leap February, a year
\* end, a Wednesday, and a day in the middle of a month.
CalcAnchorDays ==
    { DaysFromCivil(2024, 1, 31), DaysFromCivil(2023, 1, 31),
      DaysFromCivil(2023, 12, 31), DaysFromCivil(2024, 6, 5),
      DaysFromCivil(2024, 8, 15) }

\* UTC hours of day of the stored anchor and of the target.
AnchorHours == {0, 15}
TargetHours == {0, 15}

MonthlyTypes == {"monthly", "monthly_variable"}
WeeklyTypes == {"weekly", "biweekly"}

CalcTemplates ==
    [date : {d * 24 + h : d \in CalcAnchorDays, h \in AnchorHours},
     recurrenceType : MonthlyTypes,
     recurrenceDay : {NoDay, Day(0), Day(15), Day(30), Day(31), Day(0 - 2)}]
    \cup
    [date : {d * 24 + h : d \in CalcAnchorDays, h \in AnchorHours},
     recurrenceType : WeeklyTypes,
     recurrenceDay : {NoDay, Day(0), Day(3), Day(6), Day(0 - 3)}]
    \cup
    [date : {d * 24 + h : d \in CalcAnchorDays, h \in AnchorHours},
     recurrenceType : {"none"},
     recurrenceDay : {NoDay}]

\* Target days for an anchor day: every day from the day before the anchor
\* to MaxTargetDays after it, and the last day of each of the next
\* MaxTargetMonths months.
CalcTargetDays(anchorDay) ==
    LET c == CivilFromDays(anchorDay)
    IN  {anchorDay + k : k \in (0 - 1)..MaxTargetDays}
        \cup {DaysFromCivil(c.year + ((c.month + j + 1) \div 12),
                            ((c.month + j + 1) % 12) + 1, 1) - 1 :
                  j \in 1..MaxTargetMonths}

InitCalc ==
    /\ NoForm
    /\ tz \in TimeZones
    /\ calcTemplate \in CalcTemplates
    /\ calcTarget \in {d * 24 + h :
                          d \in CalcTargetDays(calcTemplate.date \div 24),
                          h \in TargetHours}
    /\ calcDates = <<>>
    /\ calcPc = "input"
    /\ rows = {}
    /\ nextId = 1
    /\ proc = [p \in Procs |-> Idle]
    /\ created = {}
    /\ lastRun = <<>>
    /\ runs = 0
    /\ response = [p \in Procs |-> NoResponse]
    /\ edits = 0
    /\ edited = {}
    /\ formRows = {}
    /\ listing = <<>>
    /\ NoAuth

Calculate ==
    /\ calcPc = "input"
    /\ calcDates' = calculateNextRecurrenceDates(calcTemplate, calcTarget)
    /\ calcPc' = "done"
    /\ UNCHANGED <<tz, calcTemplate, calcTarget>>
    /\ UNCHANGED formVars
    /\ UNCHANGED dbVars
    /\ UNCHANGED authVars

NextCalc == Calculate

SpecCalc == InitCalc /\ [][NextCalc]_vars

-----------------------------------------------------------------------------
(* Properties of the calculator (checked under SpecCalc).                  *)

IsLeapYear(y) == (y % 4 = 0 /\ y % 100 # 0) \/ y % 400 = 0

\* Days of month m (0-based) of year y, from the calendar's table.
DaysInMonth(y, m) ==
    IF m = 1 THEN (IF IsLeapYear(y) THEN 29 ELSE 28)
    ELSE IF m \in {3, 5, 8, 10} THEN 30 ELSE 31

Weekday(day) == (day + 4) % 7

CalcDone == calcPc = "done"
CalcType == calcTemplate.recurrenceType
CalcAnchorDay == LocalDay(calcTemplate.date)
CalcTargetDay == LocalDay(calcTarget)
CalcIndices == 1..Len(calcDates)

\* The nominal day of a monthly template: recurrenceDay, or the anchor's
\* day of month when unset.
NominalDay ==
    IF calcTemplate.recurrenceDay = NoDay THEN getDate(calcTemplate.date)
    ELSE calcTemplate.recurrenceDay[1]

\* The target weekday of a weekly or biweekly template.
TargetWeekday ==
    IF calcTemplate.recurrenceDay = NoDay THEN getDay(calcTemplate.date)
    ELSE calcTemplate.recurrenceDay[1]

\* The first calendar day on or after the anchor day on the target weekday.
FirstAlignedDay ==
    CHOOSE D \in CalcAnchorDay..(CalcAnchorDay + 6) : Weekday(D) = TargetWeekday

ClampedDay(D) ==
    LET c == CivilFromDays(D)
        last == DaysInMonth(c.year, c.month)
    IN  IF NominalDay < last THEN NominalDay ELSE last

\* C6: every occurrence of a monthly or monthly_variable template with
\* nominal day d in 1..31 falls on day min(d, lastDay(M)) of its month M
\* (28 or 29 February, 30 April/June/September/November for d = 31).
C6_MonthClamp ==
    (CalcDone /\ CalcType \in MonthlyTypes /\ NominalDay \in 1..31) =>
        \A i \in CalcIndices :
            CivilFromDays(LocalDay(calcDates[i])).day
                = ClampedDay(LocalDay(calcDates[i]))

\* Monthly on the 31st from 2024-01-31: 29 February, 31 March, 30 April.
C6_Witness ==
    /\ CalcDone /\ CalcType \in MonthlyTypes /\ NominalDay = 31
    /\ \E i, j, k \in CalcIndices :
          /\ LocalDay(calcDates[i]) = DaysFromCivil(2024, 2, 29)
          /\ LocalDay(calcDates[j]) = DaysFromCivil(2024, 3, 31)
          /\ LocalDay(calcDates[k]) = DaysFromCivil(2024, 4, 30)

\* C7: a weekly template with target weekday w in 0..6 starts on the first
\* day on or after the anchor day that falls on w, every occurrence falls
\* on w, consecutive occurrences are 7 days apart, and every such day up to
\* the target day is produced.
C7_WeeklyAlignment ==
    (CalcDone /\ CalcType = "weekly" /\ TargetWeekday \in 0..6) =>
        /\ \A i \in CalcIndices : Weekday(LocalDay(calcDates[i])) = TargetWeekday
        /\ calcDates # <<>> => LocalDay(calcDates[1]) = FirstAlignedDay
        /\ \A i \in CalcIndices : i > 1 =>
              /\ calcDates[i] - calcDates[i - 1] = 7 * 24
              /\ LocalDay(calcDates[i]) - LocalDay(calcDates[i - 1]) = 7
        /\ \A D \in FirstAlignedDay..CalcTargetDay :
              (D - FirstAlignedDay) % 7 = 0 =>
                  \E i \in CalcIndices : LocalDay(calcDates[i]) = D

\* C8: a biweekly template (recurrenceDay unset or a weekday 0..6) starts
\* on the date a weekly template with the same anchor and recurrenceDay
\* starts on, and consecutive occurrences are exactly 14 days apart.
C8_BiweeklySpacing ==
    (CalcDone /\ CalcType = "biweekly" /\ TargetWeekday \in 0..6) =>
        /\ calcDates # <<>> =>
              LET weekly == calculateNextRecurrenceDates(
                                [calcTemplate EXCEPT !.recurrenceType = "weekly"],
                                calcTarget)
              IN  /\ weekly # <<>>
                  /\ calcDates[1] = weekly[1]
                  /\ LocalDay(calcDates[1]) = FirstAlignedDay
        /\ \A i \in CalcIndices : i > 1 =>
              /\ calcDates[i] - calcDates[i - 1] = 14 * 24
              /\ LocalDay(calcDates[i]) - LocalDay(calcDates[i - 1]) = 14

\* A biweekly list of at least two dates that starts after the anchor day.
C8_Witness ==
    /\ CalcDone /\ CalcType = "biweekly" /\ TargetWeekday \in 0..6
    /\ Len(calcDates) >= 2
    /\ LocalDay(calcDates[1]) > CalcAnchorDay

\* C9: the returned list is strictly ascending, and none of its dates is
\* before the anchor's calendar day or after the target's calendar day.
C9_AscendingInRange ==
    CalcDone =>
        /\ \A i \in CalcIndices : i > 1 =>
              /\ calcDates[i - 1] < calcDates[i]
              /\ LocalDay(calcDates[i - 1]) < LocalDay(calcDates[i])
              /\ toISODate(calcDates[i - 1]) < toISODate(calcDates[i])
        /\ \A i \in CalcIndices :
              /\ CalcAnchorDay <= LocalDay(calcDates[i])
              /\ LocalDay(calcDates[i]) <= CalcTargetDay
              /\ toISODate(calcTemplate.date) <= toISODate(calcDates[i])
              /\ toISODate(calcDates[i]) <= toISODate(calcTarget)

\* A monthly list of three dates for a nominal day earlier in the month than
\* the anchor: the anchor month's occurrence is left out.
C9_Witness ==
    /\ CalcDone /\ CalcType \in MonthlyTypes
    /\ NominalDay \in 1..31 /\ NominalDay < getDate(calcTemplate.date)
    /\ Len(calcDates) >= 3
    /\ getMonth(calcDates[1]) # getMonth(calcTemplate.date)

\* C10: both bounds are inclusive by calendar day: a nominal occurrence on
\* the anchor's calendar day or on the target's calendar day is produced,
\* whatever the times of day of the anchor and of the target.
IsNominalOccurrence(D) ==
    CASE CalcType \in MonthlyTypes ->
             /\ NominalDay \in 1..31
             /\ CivilFromDays(D).day = ClampedDay(D)
      [] CalcType = "weekly" ->
             /\ TargetWeekday \in 0..6
             /\ D >= FirstAlignedDay /\ (D - FirstAlignedDay) % 7 = 0
      [] CalcType = "biweekly" ->
             /\ TargetWeekday \in 0..6
             /\ D >= FirstAlignedDay /\ (D - FirstAlignedDay) % 14 = 0
      [] OTHER -> FALSE

C10_InclusiveBounds ==
    (CalcDone /\ CalcAnchorDay <= CalcTargetDay) =>
        \A D \in {CalcAnchorDay, CalcTargetDay} :
            IsNominalOccurrence(D) =>
                \E i \in CalcIndices : LocalDay(calcDates[i]) = D

-----------------------------------------------------------------------------
(* Properties of the materializer.                                         *)

Row(id) == CHOOSE r \in rows : r.id = id

\* The match key of a row.
Key(r) == <<r.userId, r.title, r.categoryId, toISODate(r.date)>>

Done(p) == proc[p].pc = "done"

\* The call of p repeats the last completed call with no write in between.
Repeats(p) ==
    /\ lastRun # <<>>
    /\ ~lastRun[1].failed
    /\ lastRun[1].userId = proc[p].userId
    /\ lastRun[1].targetDate = proc[p].targetDate

\* C1: a call that repeats the previous completed call (same userId and
\* targetDate, no other write in between) returns createdCount = 0 and
\* leaves the set of rows as the first call left it.
C1_Idempotent ==
    \A p \in Procs :
        (Done(p) /\ Repeats(p)) =>
            /\ proc[p].createdCount = 0
            /\ rows = lastRun[1].rows

\* The first call created rows, the repeated one has finished.
C1_Witness ==
    \E p \in Procs :
        /\ Done(p) /\ Repeats(p)
        /\ lastRun[1].createdCount > 1
        /\ proc[p].createdCount = 0

\* C2: with calls served one after the other, at most one row created by
\* the materializer exists for each (userId, title, categoryId, calendar
\* date).
C2_AtMostOnePerKey ==
    \A a, b \in created :
        (a.id # b.id /\ Row(a.id) \in rows /\ Row(b.id) \in rows) =>
            Key(Row(a.id)) # Key(Row(b.id))

\* A second call with a later target date, over the range of the first,
\* has created rows after the first did.
C2_Witness ==
    \E p \in Procs :
        /\ Done(p) /\ lastRun # <<>>
        /\ ~lastRun[1].failed
        /\ lastRun[1].userId = proc[p].userId
        /\ lastRun[1].targetDate < proc[p].targetDate
        /\ lastRun[1].createdCount > 0
        /\ proc[p].createdCount > 0

\* C3: whatever the interleaving of two concurrent calls, no two rows with
\* the same key are created for the same occurrence of a template.
C3_NoConcurrentDuplicates ==
    \A a, b \in created :
        (/\ a.id # b.id
         /\ a.template = b.template
         /\ toISODate(a.date) = toISODate(b.date)) =>
            Key(Row(a.id)) # Key(Row(b.id))

\* The templates of a user and the occurrences due for a call.
TemplatesOf(userId) == {r \in rows : r.userId = userId /\ r.isRecurring}

Occurrences(t, targetDate) ==
    LET dates == calculateNextRecurrenceDates(t, targetDate)
    IN  {dates[i] : i \in 1..Len(dates)}

\* A row of the user with the template's title on the occurrence's calendar
\* day, and with the template's category when the template has one.
Covers(r, t, d) ==
    /\ r.userId = t.userId
    /\ r.title = t.title
    /\ toISODate(r.date) = toISODate(d)
    /\ (t.categoryId # NULL /\ t.categoryId # "") => r.categoryId = t.categoryId

IsMaterialized(r) == ~r.isRecurring /\ r.recurrenceType = "none"

\* C4 as stated: after a successful call every due occurrence of every
\* template of the user has a materialized (non-template) row with the
\* template's title on that calendar day.
C4_MaterializedForEveryOccurrence ==
    \A p \in Procs :
        Done(p) =>
            \A t \in TemplatesOf(proc[p].userId) :
                \A d \in Occurrences(t, proc[p].targetDate) :
                    \E r \in rows :
                        /\ r.userId = t.userId /\ r.title = t.title
                        /\ toISODate(r.date) = toISODate(d)
                        /\ IsMaterialized(r)

\* C4 amended: after a successful call every due occurrence of every
\* template of the user has a row (of any kind, the template row included)
\* of that user with the template's title, and the template's category when
\* it has one, on that calendar day; and an occurrence is skipped only when
\* such a row already existed.
C4_RowForEveryOccurrence ==
    /\ [](\A p \in Procs :
            Done(p) =>
                \A t \in TemplatesOf(proc[p].userId) :
                    \A d \in Occurrences(t, proc[p].targetDate) :
                        \E r \in rows : Covers(r, t, d))
    /\ [][\A p \in Procs :
            (/\ proc[p].pc = "check"
             /\ proc'[p] # proc[p]
             /\ proc'[p].pc \notin {"insert", "failed"}) =>
                \E r \in rows : Covers(r, Head(proc[p].recurringTransactions),
                                       Head(proc[p].nextDates))]_vars

\* A call has finished, it created rows, and one occurrence is covered by
\* the template row alone.
C4_Witness ==
    \E p \in Procs :
        /\ Done(p) /\ proc[p].createdCount > 0
        /\ \E t \in TemplatesOf(proc[p].userId) :
              \E d \in Occurrences(t, proc[p].targetDate) :
                  /\ Covers(t, t, d)
                  /\ ~\E r \in rows : Covers(r, t, d) /\ IsMaterialized(r)

\* The row inserted by a step, with the template and occurrence it is for.
InsertedBy(r, c, p, notes) ==
    LET t == Row(c.template)
    IN  /\ proc[p].pc = "insert"
        /\ t = Head(proc[p].recurringTransactions)
        /\ c.date = Head(proc[p].nextDates)
        /\ c.date \in Occurrences(t, proc[p].targetDate)
        /\ r.status = "unpaid"
        /\ r.recurrenceType = "none"
        /\ r.recurrenceDay = NoDay
        /\ r.isRecurring = FALSE
        /\ r.userId = t.userId
        /\ r.categoryId = t.categoryId
        /\ r.title = t.title
        /\ r.amount = t.amount
        /\ r.notes = notes
        /\ r.date = c.date

\* C5 as stated: every row the materializer inserts is unpaid, of type
\* none, with no recurrence day and isRecurring = false, on the occurrence
\* date, and copies userId, categoryId, title, amount and notes from its
\* template.
C5_CopiesNotes ==
    [][\A r \in rows' \ rows : \A c \in created' \ created :
          c.id = r.id =>
              \E p \in Procs : InsertedBy(r, c, p, Row(c.template).notes)]_vars

\* C5 amended: as stated, except that the notes are copied when they are
\* not empty and are null when the template's notes are null or "".
C5_InsertedFields ==
    [][\A r \in rows' \ rows : \A c \in created' \ created :
          c.id = r.id =>
              \E p \in Procs :
                  InsertedBy(r, c, p,
                             IF Row(c.template).notes = ""
                             THEN NULL ELSE Row(c.template).notes)]_vars

\* A row created from a paid template with empty notes, and one created
\* from a template with notes and no category.
C5_Witness ==
    /\ \E c \in created :
          /\ Row(c.template).status = "paid" /\ Row(c.template).notes = ""
          /\ Row(c.id).status = "unpaid" /\ Row(c.id).notes = NULL
    /\ \E c \in created :
          /\ Row(c.template).categoryId = NULL
          /\ Row(c.id).notes = "memo"

\* ---- Sequential materializer: count, failures, isolation ----

\* The rows of the user that processRecurringTransactions reads as
\* templates, in the table as the call found it.
TemplatesBefore(p) ==
    {r \in proc[p].before : r.userId = proc[p].userId /\ r.isRecurring}

\* C11: the number a call returns is the number of rows it inserted (rows
\* after minus rows before, no other writer), and a call for a user with no
\* isRecurring row answers 0 without error and writes nothing.
C11_CountEqualsInserted ==
    [][\A p \in Procs :
          (proc[p].pc = "done" /\ proc'[p].pc = "idle") =>
              /\ response'[p].status = 200
              /\ response'[p].body.createdCount =
                     Cardinality(rows') - Cardinality(proc[p].before)
              /\ proc[p].before \subseteq rows'
              /\ TemplatesBefore(p) = {} =>
                     /\ response'[p].body.createdCount = 0
                     /\ rows' = proc[p].before]_vars

\* A call has answered that it created two rows or more.
C11_Witness ==
    \E p \in Procs :
        /\ response[p].status = 200
        /\ response[p].body.createdCount >= 2
        /\ proc[p].pc = "idle"

\* C12: when an existence check or an insert fails the call stops there: no
\* later occurrence is checked or inserted, the rows inserted before the
\* failure remain, and the endpoint answers HTTP 500 with a generic error
\* that carries no createdCount.
C12_FailureStopsAndKeepsRows ==
    [][\A p \in Procs :
          /\ (proc[p].pc \in {"check", "insert"} /\ proc'[p].pc = "failed") =>
                 /\ rows' = rows
                 /\ \A c \in created : \E r \in rows' : r.id = c.id
          /\ proc[p].pc = "failed" =>
                 /\ rows' = rows
                 /\ created' = created
                 /\ proc'[p] # proc[p] =>
                        /\ proc'[p].pc = "idle"
                        /\ response'[p].status = 500
                        /\ DOMAIN response'[p].body = {"error"}]_vars

\* A call has failed after it created a row, with a later occurrence or a
\* later template still to do.
C12_Witness ==
    \E p \in Procs :
        /\ proc[p].pc = "failed"
        /\ proc[p].createdCount > 0
        /\ Len(proc[p].nextDates) >= 2 \/ Len(proc[p].recurringTransactions) >= 2

\* The rows the materializer created that are still in the table.
InstancesOf(templateId) ==
    {r \in rows : \E c \in created : c.id = r.id /\ c.template = templateId}

IsInstance(r) == \E c \in created : c.id = r.id

\* C13: an update or a delete of a materialized instance leaves its
\* template and every other instance as they were, and an update or a
\* delete of a template leaves every instance materialized from it (and
\* every other row) as it was and present.
C13_EditLeavesOtherRows ==
    [][edits' # edits =>
          \A x \in rows :
              x \notin rows' =>
                  /\ \A r \in rows : r.id # x.id => r \in rows'
                  /\ \A r \in rows' : r.id # x.id => r \in rows
                  /\ IsInstance(x) =>
                         \A c \in created :
                             c.id = x.id =>
                                 \A t \in rows : t.id = c.template => t \in rows'
                  /\ InstancesOf(x.id) \subseteq rows']_vars

\* A template was deleted and an instance materialized from it is present.
C13_Witness ==
    /\ edits > 0
    /\ \E c \in created :
          /\ \E r \in rows : r.id = c.id
          /\ \A r \in rows : r.id # c.template

\* C14: a call for user u reads templates of u only, inserts rows of u
\* only, leaves the rows of the other users as they were, and skips an
\* occurrence only when a row of u itself has the template's title on that
\* calendar day.
C14_ScopedToUser ==
    /\ [](\A p \in Procs :
            \A i \in 1..Len(proc[p].recurringTransactions) :
                proc[p].recurringTransactions[i].userId = proc[p].userId)
    /\ [][\A p \in Procs :
            proc[p].pc \in {"check", "insert"} =>
                /\ \A r \in rows' \ rows : r.userId = proc[p].userId
                /\ \A r \in rows : r.userId # proc[p].userId => r \in rows'
                /\ (/\ proc[p].pc = "check"
                    /\ proc'[p] # proc[p]
                    /\ proc'[p].pc \notin {"insert", "failed"}) =>
                       \E r \in rows :
                           /\ r.userId = proc[p].userId
                           /\ r.title = Head(proc[p].recurringTransactions).title
                           /\ toISODate(r.date)
                                  = toISODate(Head(proc[p].nextDates))]_vars

\* A row was created for u1 although u2 already had a row with the same
\* title and category on that calendar day.
C14_Witness ==
    \E c \in created, r, o \in rows :
        /\ r.id = c.id /\ r.userId = "u1"
        /\ o.userId = "u2" /\ o.id < r.id
        /\ o.title = r.title /\ o.categoryId = r.categoryId
        /\ toISODate(o.date) = toISODate(r.date)

\* ---- Edits and listings ----

\* C15: every row written through the Transactions page, the Weekly View
\* form, PATCH or the materializer has isRecurring = true exactly when its
\* recurrenceType is not none.
C15_RecurringIffTyped ==
    \A r \in rows :
        (r.id \in formRows \/ IsInstance(r)) =>
            (r.isRecurring <=> r.recurrenceType # "none")

\* C16: a PATCH leaves the userId, isRecurring, recurrenceType and
\* recurrenceDay of every row as they were, whatever the body holds, and
\* leaves every row that the caller does not own as it was.
C16_PatchKeepsProtectedFields ==
    [][\A e \in edited' \ edited :
          \A r \in rows :
              /\ \E q \in rows' :
                    /\ q.id = r.id
                    /\ q.userId = r.userId
                    /\ q.isRecurring = r.isRecurring
                    /\ q.recurrenceType = r.recurrenceType
                    /\ q.recurrenceDay = r.recurrenceDay
              /\ r.userId # e.userId => r \in rows'
              /\ r.id # e.id => r \in rows']_vars

\* A PATCH of the owner whose body held the four fields has changed the
\* title of the row and nothing of the four.
C16_Witness ==
    \E e \in edited, r \in rows :
        /\ {"userId", "isRecurring", "recurrenceType", "recurrenceDay"}
               \subseteq DOMAIN e.body
        /\ r.id = e.id /\ r.userId = e.userId
        /\ r.userId # e.body.userId
        /\ r.title = e.body.title
        /\ r.recurrenceType # e.body.recurrenceType
        /\ r.recurrenceDay # e.body.recurrenceDay

\* The month of a time, counted from year 0, in the server's zone.
MonthOf(t) == getFullYear(t) * 12 + getMonth(t)

\* C17: a listing without filters holds, for every template of the user
\* and every occurrence of it due at the time of the request in the
\* current month, a row on that occurrence.
C17_ListingHoldsDueInstances ==
    \A i \in 1..Len(listing) :
        listing[i].filters = <<>> =>
            \A t \in TemplatesOf(listing[i].userId) :
                \A d \in Occurrences(t, listing[i].at) :
                    MonthOf(d) = MonthOf(listing[i].at) =>
                        \E r \in listing[i].transactions : Covers(r, t, d)

\* C18: the existence check skips an occurrence of a template with a
\* category exactly when a row of the user with the template's title and
\* that category is on the occurrence's calendar day, and an occurrence of a
\* template without category exactly when a row of the user with the
\* template's title, of any category, is on that day.
C18_CategoryComparedWhenPresent ==
    [][\A p \in Procs :
          (/\ proc[p].pc = "check"
           /\ proc'[p] # proc[p]
           /\ proc'[p].pc # "failed") =>
              LET t == Head(proc[p].recurringTransactions)
                  sameDay ==
                      {r \in rows :
                          /\ r.userId = proc[p].userId
                          /\ r.title = t.title
                          /\ toISODate(r.date)
                                 = toISODate(Head(proc[p].nextDates))}
                  skipped == proc'[p].pc # "insert"
              IN  IF t.categoryId # NULL
                  THEN skipped <=> \E r \in sameDay : r.categoryId = t.categoryId
                  ELSE skipped <=> sameDay # {}]_vars

\* A row was created from a template with a category although a row of the
\* user with the same title and another category was on that calendar day.
C18_Witness ==
    \E c \in created, r, o \in rows :
        /\ r.id = c.id /\ r.categoryId # NULL
        /\ o.id < r.id
        /\ o.userId = r.userId /\ o.title = r.title
        /\ toISODate(o.date) = toISODate(r.date)
        /\ o.categoryId # r.categoryId

\* ---- Months of the monthly calculator, and templates without dates ----

\* The occurrence of the template in month m (counted from year 0): local
\* midnight of the nominal day, or of the month's last day when shorter.
OccurrenceInMonth(m) ==
    LET y    == m \div 12
        last == DaysInMonth(y, m % 12)
        day  == IF NominalDay < last THEN NominalDay ELSE last
    IN  DaysFromCivil(y, (m % 12) + 1, day) * 24 - tz

\* C19: the dates of a monthly or monthly_variable template with nominal
\* day in 1..31 are, in order and once each, the occurrences of the months
\* from the anchor's month to the target's month that lie between the
\* anchor and the target; the occurrence of a month is the nominal day of
\* that month, or its last day, whatever the months before it were.
C19_EachMonthOnce ==
    (CalcDone /\ CalcType \in MonthlyTypes /\ NominalDay \in 1..31) =>
        LET first == MonthOf(calcTemplate.date)
            last  == MonthOf(calcTarget)
        IN  /\ \A i \in CalcIndices :
                  /\ MonthOf(calcDates[i]) \in first..last
                  /\ calcDates[i] = OccurrenceInMonth(MonthOf(calcDates[i]))
            /\ \A i, j \in CalcIndices :
                  i < j => MonthOf(calcDates[i]) < MonthOf(calcDates[j])
            /\ \A m \in first..last :
                  (/\ OccurrenceInMonth(m) >= calcTemplate.date
                   /\ OccurrenceInMonth(m) <= calcTarget) =>
                      \E i \in CalcIndices : MonthOf(calcDates[i]) = m

\* Monthly on the 31st from 2023-12-31 to 2024-04-30: December, January,
\* 29 February, and again 31 March.
C19_Witness ==
    /\ CalcDone /\ CalcType \in MonthlyTypes /\ NominalDay = 31
    /\ Len(calcDates) = 5
    /\ LocalDay(calcDates[1]) = DaysFromCivil(2023, 12, 31)
    /\ LocalDay(calcDates[2]) = DaysFromCivil(2024, 1, 31)
    /\ LocalDay(calcDates[3]) = DaysFromCivil(2024, 2, 29)
    /\ LocalDay(calcDates[4]) = DaysFromCivil(2024, 3, 31)

RecognizedTypes == {"monthly", "monthly_variable", "weekly", "biweekly"}

\* A template for which the calculator has no date: of type none or of no
\* known type, or with its anchor after the target date.
WithoutDates(t, targetDate) ==
    t.recurrenceType \notin RecognizedTypes \/ targetDate < t.date

\* C20: the calculator gives no date for a template of type none or of no
\* known type, nor when the target date is before the anchor: such a
\* template is never checked or inserted for, and a call for a user whose
\* isRecurring rows are all of that kind answers createdCount = 0 and
\* inserts nothing.
C20_NoDatesNoInsert ==
    /\ [](\A p \in Procs :
            /\ proc[p].pc \in {"check", "insert"} =>
                   ~WithoutDates(Head(proc[p].recurringTransactions),
                                 proc[p].targetDate)
            /\ (/\ Done(p)
                /\ \A t \in TemplatesBefore(p) :
                       WithoutDates(t, proc[p].targetDate)) =>
                   /\ proc[p].createdCount = 0
                   /\ rows = proc[p].before)
    /\ [][\A p \in Procs :
            (/\ Done(p) /\ proc'[p].pc = "idle"
             /\ \A t \in TemplatesBefore(p) :
                    WithoutDates(t, proc[p].targetDate)) =>
                /\ response'[p].status = 200
                /\ response'[p].body.createdCount = 0]_vars

\* A call has finished for a user whose isRecurring rows are one of type
\* none and one anchored after the target date.
C20_Witness ==
    \E p \in Procs :
        /\ Done(p)
        /\ \A t \in TemplatesBefore(p) : WithoutDates(t, proc[p].targetDate)
        /\ \E t \in TemplatesBefore(p) : t.recurrenceType = "none"
        /\ \E t \in TemplatesBefore(p) :
               t.recurrenceType \in RecognizedTypes /\ proc[p].targetDate < t.date

\* ---- Templates with an invalid date ----

\* C21: a template of a recognized type whose anchor is an invalid date
\* has no occurrence and raises no error: nothing is checked or inserted
\* for it, a call over such templates alone finishes with count 0, and a
\* finished call has still left a row on every due occurrence of the
\* user's other templates.
C21_InvalidAnchorSkipped ==
    \A p \in Procs :
        /\ proc[p].pc \in {"check", "insert"} =>
               ~isNaN(Head(proc[p].recurringTransactions).date)
        /\ (/\ proc[p].pc # "idle"
            /\ \A t \in TemplatesBefore(p) : isNaN(t.date)) =>
               /\ Done(p)
               /\ proc[p].createdCount = 0
        /\ Done(p) =>
               \A t \in TemplatesBefore(p) :
                   ~isNaN(t.date) =>
                       \A d \in Occurrences(t, proc[p].targetDate) :
                           \E r \in rows : Covers(r, t, d)

\* A call has finished and created rows for a template that came after a
\* template with an invalid date.
C21_Witness ==
    \E p \in Procs :
        /\ Done(p)
        /\ proc[p].createdCount >= 1
        /\ \E bad, t \in TemplatesBefore(p) :
               isNaN(bad.date) /\ ~isNaN(t.date) /\ bad.id > t.id

\* ---- Answers of the DELETE route ----

\* C22: a DELETE that matches no row of the caller answers 404 and deletes
\* nothing, and a DELETE answers 204 only when it deleted a row of the
\* caller.
C22_DeleteAnswers ==
    [][(edits' # edits /\ edited' = edited) =>
          IF \E r \in rows : r \notin rows'
          THEN /\ reply'.status = 204
               /\ \A r \in rows : r \notin rows' => r.id \notin {q.id : q \in rows'}
          ELSE /\ reply'.status = 404
               /\ rows' = rows]_vars

-----------------------------------------------------------------------------
(* Registration, login, logout and the hybridAuth middleware.               *)

Emails == {"ana@x.br"}
Passwords == {"senha-1", "senha-2"}
MaxNow == 2

\* bcrypt.hash and bcrypt.compare.
bcryptHash(password) == "$2b$10$" \o password
bcryptCompare(password, hash) == hash = bcryptHash(password)

\* gen_random_uuid(): the id of a new row of the users table.
newUserId == IF \E u \in users : u.id = "u1" THEN "u2" ELSE "u1"

\* db.insert(users).values(...).returning(): the row holds the columns the
\* table has.
insertUser(values) ==
    IF passwordColumn THEN values
    ELSE [k \in (DOMAIN values) \ {"password"} |-> values[k]]

\* const { password: _, ...userWithoutPassword } = user
userWithoutPassword(user) == [k \in (DOMAIN user) \ {"password"} |-> user[k]]

\* POST /api/auth/register
Register(email, password) ==
    /\ IF \E u \in users : u.email = email
       THEN /\ reply' = [route |-> "POST /api/auth/register", status |-> 400,
                         body |-> [message |-> "Email ja cadastrado"]]
            /\ UNCHANGED <<users, session>>
       ELSE LET newUser == insertUser([id |-> newUserId, email |-> email,
                                       password |-> bcryptHash(password),
                                       firstName |-> "Ana",
                                       accountType |-> "personal"])
            IN  /\ users' = users \cup {newUser}
                /\ session' = [session EXCEPT !.userId = newUser.id]
                /\ reply' = [route |-> "POST /api/auth/register",
                             status |-> 201,
                             body |-> userWithoutPassword(newUser)]
    /\ UNCHANGED <<tz, passwordColumn, now>>
    /\ UNCHANGED dbVars
    /\ UNCHANGED calcVars
    /\ UNCHANGED formVars

\* POST /api/auth/login
Login(email, password) ==
    /\ LET found == {u \in users : u.email = email}
           valid == {u \in found :
                        /\ "password" \in DOMAIN u
                        /\ truthy(u.password)
                        /\ bcryptCompare(password, u.password)}
       IN  IF valid = {}
           THEN /\ reply' = [route |-> "POST /api/auth/login", status |-> 401,
                             body |-> [message |-> "Email ou senha incorretos"]]
                /\ UNCHANGED session
           ELSE LET user == CHOOSE u \in valid : TRUE
                IN  /\ session' = [session EXCEPT !.userId = user.id]
                    /\ reply' = [route |-> "POST /api/auth/login",
                                 status |-> 200,
                                 body |-> userWithoutPassword(user)]
    /\ UNCHANGED <<tz, passwordColumn, users, now>>
    /\ UNCHANGED dbVars
    /\ UNCHANGED calcVars
    /\ UNCHANGED formVars

\* logoutHandler: req.session.destroy, which may report an error.
Logout(err) ==
    /\ IF err
       THEN /\ reply' = [route |-> "POST /api/auth/logout", status |-> 500,
                         body |-> [message |-> "Erro ao fazer logout"]]
            /\ UNCHANGED session
       ELSE /\ reply' = [route |-> "POST /api/auth/logout", status |-> 200,
                         body |-> [message |-> "Logout realizado com sucesso",
                                   redirect |-> "/"]]
            /\ session' = NoSession
    /\ UNCHANGED <<tz, passwordColumn, users, now>>
    /\ UNCHANGED dbVars
    /\ UNCHANGED calcVars
    /\ UNCHANGED formVars

\* GET /api/auth/me
Me ==
    /\ IF ~truthy(session.userId)
       THEN /\ reply' = [route |-> "GET /api/auth/me", status |-> 401,
                         body |-> [message |-> "Nao autenticado"]]
            /\ UNCHANGED session
       ELSE IF \A u \in users : u.id # session.userId
       THEN /\ reply' = [route |-> "GET /api/auth/me", status |-> 401,
                         body |-> [message |-> "Usuario nao encontrado"]]
            /\ session' = NoSession
       ELSE /\ reply' = [route |-> "GET /api/auth/me", status |-> 200,
                         body |-> userWithoutPassword(
                                      CHOOSE u \in users : u.id = session.userId)]
            /\ UNCHANGED session
    /\ UNCHANGED <<tz, passwordColumn, users, now>>
    /\ UNCHANGED dbVars
    /\ UNCHANGED calcVars
    /\ UNCHANGED formVars

\* The passport users an OIDC login can leave in the session: expires_at
\* is the exp claim, the refresh token may be missing.
OidcUsers ==
    [claims : {[sub |-> "o1", exp |-> 1]}, expires_at : {1},
     refresh_token : {NULL, "rt-1"}]

\* The outcomes of client.refreshTokenGrant: it throws (<<>>) or gives a
\* token response with claims that expire later.
Refreshes ==
    {<<>>} \cup
    {<<[claims |-> [sub |-> "o1", exp |-> n], refresh_token |-> "rt-2"]>> :
        n \in {now + 1}}

\* The OIDC login and callback of replitAuth: the passport user is put in
\* the session and upserted in the users table.
OidcLogin(user) ==
    /\ session' = [session EXCEPT !.passport = <<user>>]
    /\ users' = {u \in users : u.id # user.claims.sub}
                   \cup {insertUser([id |-> user.claims.sub,
                                     email |-> "oto@x.br", password |-> NULL,
                                     firstName |-> "Oto",
                                     accountType |-> "personal"])}
    /\ reply' = [route |-> "GET /api/callback", status |-> 302,
                 body |-> [none |-> TRUE]]
    /\ UNCHANGED <<tz, passwordColumn, now>>
    /\ UNCHANGED dbVars
    /\ UNCHANGED calcVars
    /\ UNCHANGED formVars

\* Time passes.
Tick ==
    /\ now < MaxNow
    /\ now' = now + 1
    /\ UNCHANGED <<tz, passwordColumn, users, session, reply>>
    /\ UNCHANGED dbVars
    /\ UNCHANGED calcVars
    /\ UNCHANGED formVars

Denied(sess, error) ==
    [next |-> FALSE, userId |-> NULL, session |-> sess, error |-> error]

Granted(sess, userId) ==
    [next |-> TRUE, userId |-> userId, session |-> sess, error |-> ""]

\* hybridAuth for a request with that session at time t, where refreshed
\* is the outcome of the refresh grant if it is asked for: whether next()
\* is called and with which req.userId, the session afterwards, and the
\* error of the 401 answer otherwise.
hybridAuthNoExpiry(sess, t, refreshed) ==
    IF truthy(sess.userId) THEN Granted(sess, sess.userId)
    ELSE IF sess.passport # <<>> /\ truthy(sess.passport[1].claims.sub)
    THEN Granted(sess, sess.passport[1].claims.sub)
    ELSE Denied(sess, "Nao autenticado")

hybridAuth(sess, t, refreshed) ==
    IF truthy(sess.userId) THEN Granted(sess, sess.userId)
    ELSE IF sess.passport # <<>> /\ truthy(sess.passport[1].claims.sub)
    THEN LET user == sess.passport[1]
         IN  IF user.expires_at # 0 /\ t > user.expires_at
             THEN IF truthy(user.refresh_token)
                  THEN IF refreshed # <<>>
                       THEN Granted([sess EXCEPT !.passport =
                                        <<[claims |-> refreshed[1].claims,
                                           expires_at |-> refreshed[1].claims.exp,
                                           refresh_token |->
                                               refreshed[1].refresh_token]>>],
                                    refreshed[1].claims.sub)
                       ELSE Denied(sess,
                                   "Token expirado e nao pode ser renovado")
                  ELSE Denied(sess, "Token expirado")
             ELSE Granted(sess, user.claims.sub)
    ELSE Denied(sess, "Nao autenticado")

\* res.status(401).json({ error })
unauthorized(route, auth) ==
    [route |-> route, status |-> 401, body |-> [error |-> auth.error]]

\* storage.getUser: the row of the users table, or nothing.
getUser(id) ==
    IF \E u \in users : u.id = id THEN CHOOSE u \in users : u.id = id
    ELSE [none |-> TRUE]

\* GET /api/auth/user
GetAuthUser(refreshed) ==
    /\ LET auth == hybridAuth(session, now, refreshed)
       IN  /\ session' = auth.session
           /\ reply' = IF auth.next
                       THEN [route |-> "GET /api/auth/user", status |-> 200,
                             body |-> getUser(auth.userId)]
                       ELSE unauthorized("GET /api/auth/user", auth)
    /\ UNCHANGED <<tz, passwordColumn, users, now>>
    /\ UNCHANGED dbVars
    /\ UNCHANGED calcVars
    /\ UNCHANGED formVars

\* storage.updateAccountType: the table with the user's row updated.
updateAccountType(userId, data) ==
    {IF u.id = userId THEN [u EXCEPT !.accountType = data.accountType] ELSE u :
        u \in users}

\* PATCH /api/account-settings
PatchAccountSettings(data, refreshed) ==
    /\ LET auth == hybridAuth(session, now, refreshed)
       IN  /\ session' = auth.session
           /\ IF ~auth.next
              THEN /\ reply' = unauthorized("PATCH /api/account-settings", auth)
                   /\ UNCHANGED users
              ELSE IF \A u \in users : u.id # auth.userId
              THEN /\ reply' = [route |-> "PATCH /api/account-settings",
                                status |-> 404,
                                body |-> [error |-> "Usuario nao encontrado"]]
                   /\ UNCHANGED users
              ELSE /\ users' = updateAccountType(auth.userId, data)
                   /\ reply' = [route |-> "PATCH /api/account-settings",
                                status |-> 200,
                                body |-> CHOOSE u \in users' : u.id = auth.userId]
    /\ UNCHANGED <<tz, passwordColumn, now>>
    /\ UNCHANGED dbVars
    /\ UNCHANGED calcVars
    /\ UNCHANGED formVars

\* POST /api/transactions behind hybridAuth.
PostTransaction(body, refreshed) ==
    /\ Cardinality(rows) < MaxCreates
    /\ LET auth == hybridAuth(session, now, refreshed)
           row  == createTransaction(insertTransactionSchema(body, auth.userId))
       IN  /\ session' = auth.session
           /\ IF auth.next
              THEN /\ rows' = rows \cup {row}
                   /\ nextId' = nextId + 1
                   /\ reply' = [route |-> "POST /api/transactions",
                                status |-> 201, body |-> row]
              ELSE /\ reply' = unauthorized("POST /api/transactions", auth)
                   /\ UNCHANGED <<rows, nextId>>
    /\ lastRun' = <<>>
    /\ listing' = <<>>
    /\ UNCHANGED <<tz, proc, created, runs, response, edits, edited, formRows>>
    /\ UNCHANGED <<passwordColumn, users, now>>
    /\ UNCHANGED calcVars
    /\ UNCHANGED formVars

\* GET /api/transactions behind hybridAuth, at time at of the calendar.
GetTransactions(at, refreshed) ==
    /\ LET auth == hybridAuth(session, now, refreshed)
       IN  /\ session' = auth.session
           /\ IF auth.next
              THEN /\ listing' = <<[userId |-> auth.userId, filters |-> <<>>,
                                   at |-> at,
                                   transactions |->
                                       getTransactions(auth.userId, <<>>)]>>
                   /\ reply' = [route |-> "GET /api/transactions",
                                status |-> 200,
                                body |-> [transactions |->
                                             getTransactions(auth.userId, <<>>)]]
              ELSE /\ listing' = <<>>
                   /\ reply' = unauthorized("GET /api/transactions", auth)
    /\ UNCHANGED <<tz, rows, nextId, proc, created, lastRun, runs,
                   response, edits, edited, formRows>>
    /\ UNCHANGED <<passwordColumn, users, now>>
    /\ UNCHANGED calcVars
    /\ UNCHANGED formVars

\* The users table has the password column that register writes and login
\* reads, or (as the table is declared) it has not.
InitAuth ==
    /\ NoForm
    /\ tz = 0
    /\ rows = {}
    /\ nextId = 1
    /\ proc = [p \in Procs |-> Idle]
    /\ created = {}
    /\ lastRun = <<>>
    /\ runs = 0
    /\ response = [p \in Procs |-> NoResponse]
    /\ edits = 0
    /\ edited = {}
    /\ formRows = {}
    /\ listing = <<>>
    /\ passwordColumn \in BOOLEAN
    /\ users = {}
    /\ session = NoSession
    /\ now = 0
    /\ reply = NoReply
    /\ calcTemplate = [date |-> 0, recurrenceType |-> "none",
                       recurrenceDay |-> NoDay]
    /\ calcTarget = 0
    /\ calcDates = <<>>
    /\ calcPc = "off"

AuthBodies ==
    {Body("rent", "c1", At(2024, 1, 31, 0), "unpaid", NULL, "none", NoDay, FALSE)}

\* One browser registering, logging in and out, and calling data routes.
NextAuth ==
    \/ \E e \in Emails : Register(e, "senha-1")
    \/ \E e \in Emails, pw \in Passwords : Login(e, pw)
    \/ \E err \in BOOLEAN : Logout(err)
    \/ Me
    \/ \E user \in OidcUsers : OidcLogin(user)
    \/ Tick
    \/ \E r \in Refreshes : GetAuthUser(r)
    \/ \E r \in Refreshes :
          PatchAccountSettings([accountType |-> "business"], r)
    \/ \E body \in AuthBodies, r \in Refreshes : PostTransaction(body, r)
    \/ \E r \in Refreshes : GetTransactions(At(2024, 2, 14, 15), r)

SpecAuth == InitAuth /\ [][NextAuth]_vars

\* ---- Authentication ----

DataRoutes ==
    {"GET /api/auth/user", "PATCH /api/account-settings",
     "POST /api/transactions", "GET /api/transactions"}

HasLocalUser == session.userId # NULL
HasOidcUser == session.passport # <<>>
TokenExpired == HasOidcUser /\ now > session.passport[1].expires_at
HasRefreshToken == HasOidcUser /\ session.passport[1].refresh_token # NULL

\* The step was answered 401 and touched neither table nor the session.
Refused ==
    /\ reply'.status = 401
    /\ DOMAIN reply'.body = {"error"}
    /\ rows' = rows /\ nextId' = nextId /\ users' = users
    /\ listing' \in {listing, <<>>}
    /\ session' = session

\* C23: a request to a data route with no local session user and no OIDC
\* user, or with an OIDC user whose token is expired and is not refreshed,
\* is answered 401 without a read or a write of the tables; a successful
\* logout empties the session, and an empty session stays empty until a
\* registration or a login.
C23_UnauthenticatedRefused ==
    /\ [][(now' = now /\ reply'.route \in DataRoutes) =>
            /\ (~HasLocalUser /\ ~HasOidcUser) => Refused
            /\ (~HasLocalUser /\ TokenExpired /\ ~HasRefreshToken) => Refused
            /\ (~HasLocalUser /\ TokenExpired /\ HasRefreshToken) =>
                   \/ Refused
                   \/ session'.passport[1].expires_at > now
            /\ reply'.status = 401 => Refused]_vars
    /\ [][(now' = now /\ reply'.route = "POST /api/auth/logout"
              /\ reply'.status = 200) => session' = NoSession]_vars
    /\ [][(session = NoSession /\ session' # NoSession) =>
            /\ reply'.route \in {"POST /api/auth/register",
                                 "POST /api/auth/login", "GET /api/callback"}
            /\ reply'.status \in {200, 201, 302}]_vars

\* A user registered and logged out, and a data route has answered 401.
C23_Witness ==
    /\ \E u \in users : u.email \in Emails
    /\ session = NoSession
    /\ reply.route \in DataRoutes
    /\ reply.status = 401

SameTitleAndCategory(t1, t2) ==
    /\ t1.userId = t2.userId
    /\ t1.title = t2.title
    /\ t1.categoryId = t2.categoryId

CreatedFrom(t) == {c \in created : c.template = t.id}

\* C25: the existence check takes a row of any kind: when a row of the user
\* (a manual row, an instance of another template, the template row itself)
\* has the title, the calendar day and, for a template with a category, the
\* category, the occurrence is skipped.  So no instance lies on its
\* template's own calendar day, and of two templates with the same title
\* and category only the one processed first inserts a row for a day that
\* both have.
C25_AnyRowSuppresses ==
    /\ [][(/\ proc[1].pc = "check"
           /\ proc'[1] # proc[1]
           /\ \E r \in rows : Covers(r, Head(proc[1].recurringTransactions),
                                     Head(proc[1].nextDates)))
            => (proc'[1].pc # "insert" /\ rows' = rows)]_vars
    /\ [](\A c \in created : \A t \in rows :
             t.id = c.template => toISODate(c.date) # toISODate(t.date))
    /\ [](\A c1, c2 \in created : \A t1, t2 \in rows :
             (/\ t1.id = c1.template /\ t2.id = c2.template
              /\ t1.id # t2.id
              /\ SameTitleAndCategory(t1, t2))
                 => toISODate(c1.date) # toISODate(c2.date))
    /\ [][proc[1].pc = "insert" /\ proc'[1] # proc[1] =>
            LET t == Head(proc[1].recurringTransactions)
                d == Head(proc[1].nextDates)
            IN  \A t0 \in TemplatesBefore(1) :
                    (/\ SameTitleAndCategory(t0, t)
                     /\ \E d0 \in Occurrences(t0, proc[1].targetDate) :
                           toISODate(d0) = toISODate(d))
                        => t0.id <= t.id]_vars

\* A call has finished for two templates with the same title and category:
\* the newer one has an instance on a day both have, the older one has
\* none, and the occurrence on the newer one's own day has no instance.
C25_Witness ==
    /\ Done(1)
    /\ \E t1, t2 \in TemplatesOf(proc[1].userId) :
          /\ t1.id > t2.id
          /\ SameTitleAndCategory(t1, t2)
          /\ CreatedFrom(t2) = {}
          /\ \E c \in CreatedFrom(t1) :
                \E d \in Occurrences(t2, proc[1].targetDate) :
                    toISODate(d) = toISODate(c.date)
          /\ \E d \in Occurrences(t1, proc[1].targetDate) :
                /\ toISODate(d) = toISODate(t1.date)
                /\ \A r \in rows : Covers(r, t1, d) => r.isRecurring

(***************************************************************************)
(* Instances edited or deleted between two invocations.                    *)
(***************************************************************************)

\* A template with a category, a template without one and a manual row of
\* the same title.
RedoRequests ==
    {req \in SeqRequests : req[1] = "u1" /\ req[2].title = "rent"
                             /\ req[3] # "weekly-view"}

\* Bodies of PATCH /api/transactions/:id that change one field each.
RedoPatches ==
    { [title |-> "gym"],
      [date |-> At(2024, 3, 5, 12)],
      [categoryId |-> "c2"],
      [status |-> "paid"] }

NextRedo ==
    \/ \E req \in RedoRequests : AllIdle /\ Create(req[1], req[2], req[3])
    \/ \E t \in TargetDates : AllIdle /\ Begin(1, "u1", t)
    \/ Check(1)
    \/ Insert(1)
    \/ Return(1)
    \/ \E id \in 1..(nextId - 1), body \in RedoPatches :
          AllIdle /\ Update("u1", id, body)
    \/ \E id \in 1..(nextId - 1) : AllIdle /\ Delete("u1", id)

SpecRedo == Init /\ [][NextRedo]_vars

\* The rows the finished call has inserted.
InsertedByCall == rows \ proc[1].before

\* An instance made by an earlier call for an occurrence that is still due,
\* with no row left under its key when this call started.
Unmatched(c, t) ==
    /\ c.id \notin {r.id : r \in InsertedByCall}
    /\ t.id = c.template
    /\ c.date \in Occurrences(t, proc[1].targetDate)
    /\ ~\E r \in proc[1].before : Covers(r, t, c.date)

\* An instance made by an earlier call for an occurrence that is still due,
\* which was deleted or no longer carries the key of the occurrence.
Lost(c, t) ==
    /\ c.id \notin {r.id : r \in InsertedByCall}
    /\ t.id = c.template
    /\ c.date \in Occurrences(t, proc[1].targetDate)
    /\ ~\E r \in proc[1].before : r.id = c.id /\ Covers(r, t, c.date)

\* C26 as stated: after an instance was deleted or lost its key, the next
\* call whose target date covers the occurrence inserts a new instance.
C26_InstanceAlwaysRecreated ==
    Done(1) =>
        \A c \in created : \A t \in TemplatesBefore(1) :
            Lost(c, t) =>
                \E r \in InsertedByCall : IsInstance(r) /\ Covers(r, t, c.date)

\* C26 amended: an instance is known by its key alone.  When an instance
\* was deleted, or its title, its calendar day or (for a template with a
\* category) its category was changed, or its template was renamed, and no
\* other row carries the key of the occurrence, the next call whose target
\* date covers the occurrence inserts a new instance for it and counts it.
C26_LostInstanceRecreated ==
    Done(1) =>
        /\ proc[1].createdCount = Cardinality(InsertedByCall)
        /\ \A c \in created : \A t \in TemplatesBefore(1) :
              Unmatched(c, t) =>
                  \E r \in InsertedByCall :
                      /\ IsInstance(r)
                      /\ Covers(r, t, c.date)
                      /\ r.id # c.id

\* A second call has finished after the instance of a template with a
\* category was moved to another category, and has inserted the instance
\* again.
C26_Witness ==
    /\ Done(1)
    /\ \E e \in edited : e.body = [categoryId |-> "c2"]
    /\ \E c \in created : \E t \in TemplatesBefore(1) :
          /\ Unmatched(c, t)
          /\ truthy(t.categoryId)
          /\ \E r \in rows : r.id = c.id /\ r.categoryId = "c2"
                               /\ r.title = t.title
                               /\ toISODate(r.date) = toISODate(c.date)

(***************************************************************************)
(* One invocation as a function of the table it starts from.               *)
(***************************************************************************)

\* The inner loop of processRecurringTransactions over the dates of one
\* template, from the table, next id and count in st.
RECURSIVE processDates(_, _, _, _)
processDates(st, userId, template, dates) ==
    IF dates = <<>> THEN st
    ELSE LET nextDate == Head(dates)
             found == \E r \in st.rows : matches(r, userId, template, nextDate)
             row == [newTransaction(template, nextDate) EXCEPT !.id = st.nextId]
         IN  processDates(IF found THEN st
                          ELSE [rows |-> st.rows \cup {row},
                                nextId |-> st.nextId + 1,
                                createdCount |-> st.createdCount + 1],
                          userId, template, Tail(dates))

\* The outer loop over the templates.
RECURSIVE processTemplates(_, _, _, _)
processTemplates(st, userId, templates, targetDate) ==
    IF templates = <<>> THEN st
    ELSE processTemplates(
             processDates(st, userId, Head(templates),
                          calculateNextRecurrenceDates(Head(templates),
                                                       targetDate)),
             userId, Tail(templates), targetDate)

\* processRecurringTransactions(userId, targetDate) run to its end on a
\* table: the table and the count it leaves.
processRecurringTransactions(table, userId, targetDate) ==
    processTemplates([rows |-> table,
                      nextId |-> Max({0} \cup {r.id : r \in table}) + 1,
                      createdCount |-> 0],
                     userId,
                     newestFirst({r \in table : r.userId = userId
                                                  /\ r.isRecurring}),
                     targetDate)

IsPrefix(s, t) == Len(s) <= Len(t) /\ \A i \in 1..Len(s) : s[i] = t[i]

MaterializedKeys(table, before) == {Key(r) : r \in table \ before}

\* The second of two consecutive calls for one user has finished, the
\* target date of the first not after that of the second.
SecondRunDone ==
    /\ Done(1)
    /\ lastRun # <<>>
    /\ ~lastRun[1].failed
    /\ lastRun[1].rows = proc[1].before
    /\ lastRun[1].userId = proc[1].userId
    /\ lastRun[1].targetDate <= proc[1].targetDate

\* Two templates of one title matched alike: both with a category or both
\* without.
MatchedAlike(t1, t2) ==
    t1.title = t2.title => truthy(t1.categoryId) = truthy(t2.categoryId)

\* Templates of one title, with and without a category, whose dates share
\* calendar days from February on.
StepRequests ==
    { <<"u1", handleSubmit(FormValues("rent", "c1", DaysFromCivil(2024, 1, 31),
                                      "paid", "", "monthly", Day(31))),
        "transactions">>,
      <<"u1", handleSubmit(FormValues("rent", "c2", DaysFromCivil(2024, 1, 31),
                                      "paid", "", "monthly", Day(31))),
        "transactions">>,
      <<"u1", Body("rent", NULL, At(2024, 2, 1, 15), "unpaid", "memo",
                   "biweekly", NoDay, TRUE), "api">> }

StepTargetDates == TargetDates \cup {At(2024, 2, 29, 3)}

\* Calls served one after another, without failures.
NextSteps ==
    \/ \E req \in StepRequests : AllIdle /\ Create(req[1], req[2], req[3])
    \/ \E t \in StepTargetDates : AllIdle /\ Begin(1, "u1", t)
    \/ Check(1)
    \/ Insert(1)
    \/ Return(1)

SpecSteps == Init /\ [][NextSteps]_vars

\* The comparison of the two calls with the single call.
StepsEqualSingle ==
    LET single == processRecurringTransactions(lastRun[1].before,
                                               proc[1].userId,
                                               proc[1].targetDate)
    IN  /\ \A t \in TemplatesBefore(1) :
              IsPrefix(calculateNextRecurrenceDates(t, lastRun[1].targetDate),
                       calculateNextRecurrenceDates(t, proc[1].targetDate))
        /\ MaterializedKeys(rows, lastRun[1].before) =
               MaterializedKeys(single.rows, lastRun[1].before)
        /\ lastRun[1].createdCount + proc[1].createdCount =
               single.createdCount

\* C27 as stated: for target dates t1 <= t2 the dates of a template for t1
\* are a prefix of its dates for t2; a call for t1 followed by a call for
\* t2 leaves the keys a single call for t2 leaves, and the two counts add
\* up to the count of the single call.
C27_BackfillInSteps == SecondRunDone => StepsEqualSingle

\* C27 amended: the same, for a user whose templates of one title are all
\* with a category or all without.
C27_BackfillInStepsMatchedAlike ==
    (/\ SecondRunDone
     /\ \A t1, t2 \in TemplatesBefore(1) : MatchedAlike(t1, t2))
        => StepsEqualSingle

\* Two calls have finished for two templates of one title, the first call
\* for an earlier target date, and each call has inserted a row.
C27_Witness ==
    /\ SecondRunDone
    /\ lastRun[1].targetDate < proc[1].targetDate
    /\ lastRun[1].createdCount > 0
    /\ proc[1].createdCount > 0
    /\ \A t1, t2 \in TemplatesBefore(1) : MatchedAlike(t1, t2)
    /\ \E t1, t2 \in TemplatesBefore(1) : t1.id # t2.id /\ t1.title = t2.title

(***************************************************************************)
(* A call repeated after a failure.                                        *)
(***************************************************************************)

\* The call that has finished repeats a call that failed, with no write in
\* between.
RetryDone ==
    /\ Done(1)
    /\ lastRun # <<>>
    /\ lastRun[1].failed
    /\ lastRun[1].rows = proc[1].before
    /\ lastRun[1].userId = proc[1].userId
    /\ lastRun[1].targetDate = proc[1].targetDate

\* C28: a successful call that repeats a call failed part-way inserts the
\* rows the failed call did not: the table is the one a single successful
\* call leaves, the two calls have inserted as many rows as the single
\* call, and no two inserted rows have one key.
C28_RetryCompletes ==
    RetryDone =>
        LET single == processRecurringTransactions(lastRun[1].before,
                                                   proc[1].userId,
                                                   proc[1].targetDate)
        IN  /\ rows = single.rows
            /\ proc[1].createdCount =
                   single.createdCount
                       - Cardinality(lastRun[1].rows \ lastRun[1].before)
            /\ proc[1].createdCount = Cardinality(rows \ proc[1].before)
            /\ \A r1, r2 \in rows \ lastRun[1].before :
                  Key(r1) = Key(r2) => r1 = r2

\* A call failed after it had inserted a row, and the call that repeats it
\* has finished and has inserted a row too.
C28_Witness ==
    /\ RetryDone
    /\ lastRun[1].rows # lastRun[1].before
    /\ proc[1].createdCount > 0

(***************************************************************************)
(* The frame of an invocation.                                             *)
(***************************************************************************)

Templates(table) == {r \in table : r.isRecurring}

\* C29: a step of processRecurringTransactions keeps every row as it is
\* (templates included) and adds at most rows with isRecurring = false: the
\* isRecurring rows are the same before and after a call, and no row made
\* by a call is among the templates of a call.
C29_InsertOnly ==
    /\ [][proc'[1] # proc[1] =>
            /\ rows \subseteq rows'
            /\ Templates(rows') = Templates(rows)
            /\ \A r \in rows' \ rows : IsInstance(r)' /\ ~r.isRecurring]_vars
    /\ [](proc[1].pc # "idle" =>
            /\ proc[1].before \subseteq rows
            /\ Templates(rows) = Templates(proc[1].before)
            /\ \A i \in 1..Len(proc[1].recurringTransactions) :
                  /\ ~IsInstance(proc[1].recurringTransactions[i])
                  /\ proc[1].recurringTransactions[i] \in rows)

\* A call that started on a table holding instances of an earlier call has
\* finished and has inserted further rows.
C29_Witness ==
    /\ Done(1)
    /\ proc[1].createdCount > 0
    /\ \E r \in proc[1].before : IsInstance(r)

(***************************************************************************)
(* The edit form of the Transactions page.                                 *)
(***************************************************************************)

\* Amounts of whole units, as texts of the amount column.
StoredAmounts ==
    { <<"7", ".", "0", "0">>,
      Amount100,
      <<"4", "6", "0", "0", "0", ".", "0", "0">> }

\* Texts typed in the amount field.
TypedAmounts ==
    { <<"4", "6", "0", "0", "0">>,
      <<"1", "a", "2", ".", "5">>,
      <<"0", "0", "7">>,
      <<"x">> }

FormRequests ==
    { [Body("rent", "c1", At(2024, 1, 31, 0), "paid", "", "none", NoDay, FALSE)
          EXCEPT !.amount = a] : a \in StoredAmounts }

\* Transactions.handleEdit: the values the form is reset to.
handleEdit(transaction) ==
    [title |-> transaction.title,
     amount |-> formatCurrencyInput(toString(amountInCents(transaction.amount))),
     date |-> toISODate(transaction.date),
     categoryId |-> IF truthy(transaction.categoryId)
                    THEN transaction.categoryId ELSE "",
     status |-> transaction.status,
     notes |-> IF truthy(transaction.notes) THEN transaction.notes ELSE "",
     recurrenceType |-> transaction.recurrenceType,
     recurrenceDay |-> transaction.recurrenceDay]

\* The user opens the edit form of a row of the list.
HandleEdit(id) ==
    /\ form = <<>>
    /\ \E transaction \in rows :
          /\ transaction.id = id /\ transaction.userId = "u1"
          /\ editingTransaction' = <<transaction>>
          /\ form' = <<handleEdit(transaction)>>
    /\ amountTyped' = <<>>
    /\ UNCHANGED tz
    /\ UNCHANGED dbVars
    /\ UNCHANGED calcVars
    /\ UNCHANGED authVars

\* onChange of the amount field: the text in the field is formatted.
ChangeAmount(text) ==
    /\ form # <<>>
    /\ form' = <<[form[1] EXCEPT !.amount = formatCurrencyInput(text)]>>
    /\ amountTyped' = <<text>>
    /\ UNCHANGED <<tz, editingTransaction>>
    /\ UNCHANGED dbVars
    /\ UNCHANGED calcVars
    /\ UNCHANGED authVars

\* Transactions.handleSubmit for an open edit form, the PATCH request it
\* sends and handleClose after the answer.
HandleSubmit ==
    /\ form # <<>>
    /\ editingTransaction # <<>>
    /\ updateRequest("u1", editingTransaction[1].id, handleSubmit(form[1]))
    /\ form' = <<>>
    /\ editingTransaction' = <<>>
    /\ amountTyped' = <<>>

\* handleClose: the dialog is closed without saving.
HandleClose ==
    /\ form # <<>>
    /\ form' = <<>>
    /\ editingTransaction' = <<>>
    /\ amountTyped' = <<>>
    /\ UNCHANGED tz
    /\ UNCHANGED dbVars
    /\ UNCHANGED calcVars
    /\ UNCHANGED authVars

NextForm ==
    \/ \E body \in FormRequests : form = <<>> /\ Create("u1", body, "api")
    \/ \E id \in 1..(nextId - 1) : HandleEdit(id)
    \/ \E text \in TypedAmounts : ChangeAmount(text)
    \/ HandleSubmit
    \/ HandleClose

SpecForm == Init /\ [][NextForm]_vars

\* The number of whole units a text of the amount column stands for.
WholeUnits(amount) == digitsValue(integerPart(amount))

\* The number the digits of a text write, 0 for a text without digits.
WrittenByDigits(text) == digitsValue(SelectSeq(text, isDigit))

\* The amount an untouched edit form holds is parsed back to the stored
\* amount.
EditThenParse ==
    (form # <<>> /\ editingTransaction # <<>> /\ amountTyped = <<>>) =>
        parseCurrencyInput(form[1].amount) =
            WholeUnits(editingTransaction[1].amount)

\* Saving an untouched edit form sends the stored amount and keeps the
\* amount of the row.
SavedUnchanged ==
    (/\ form # <<>> /\ editingTransaction # <<>> /\ amountTyped = <<>>
     /\ edits' = edits + 1) =>
        \A e \in edited' \ edited :
            /\ numeric(e.body.amount) = editingTransaction[1].amount
            /\ \A r \in rows' :
                  r.id = e.id => r.amount = editingTransaction[1].amount

\* The text typed in the amount field is parsed back to the number its
\* digits write.
FormatThenParse ==
    amountTyped # <<>> =>
        parseCurrencyInput(form[1].amount) = WrittenByDigits(amountTyped[1])

\* C30: the amount the form holds after handleEdit is parsed back to the
\* stored amount, so that saving the form without a change of the amount
\* field sends the stored amount and leaves the amount of the row as it
\* was; and for a text typed in the field, the formatted text is parsed
\* back to the number that the digits of the text write.
C30_EditKeepsAmount ==
    /\ []EditThenParse
    /\ [][SavedUnchanged]_vars
    /\ []FormatThenParse

====
